---- MODULE Spec2Model ----
(***************************************************************************)
(* A model of dialecta's debate orchestrator (internal/debate/executor.go)  *)
(* together with the streaming transports it drives (internal/llm).         *)
(*                                                                          *)
(* Text is a sequence of one-character strings.  "_" stands for white      *)
(* space, "#" followed by a letter stands for a markdown heading.           *)
(***************************************************************************)
EXTENDS Integers, Sequences, FiniteSets, TLC

VARIABLES
    pc,            \* position of Execute: init, wait, gate, judgeNew, judge, returned
    stream,        \* Executor.stream
    onRole,        \* Executor.onPro / onCon / onJudge: TRUE when the callback is non-nil
    onJudgeStart,  \* Executor.onJudgeStart: TRUE when the callback is non-nil
    provider,      \* cfg.<Role>.Provider, per role
    gen,           \* the chunk sequence each role's backend generates when nothing fails
    ctxCancelled,  \* the shared context has been cancelled
    wg,            \* sync.WaitGroup counter
    tpc,           \* position of each role's work: idle, new, call, streaming, reading, ret, done
    delivered,     \* number of chunks the role's stream has passed to the callback
    sess,          \* per role: what the session call did (sent, cut, ret)
    parser,        \* per role: the StreamParser
    roleErr,       \* proErr / conErr
    result,        \* the Result under construction
    events,        \* per role: the events passed to the role's callback, in order
    judgeStarts,   \* number of onJudgeStart invocations
    judgeMsgs,     \* the Pro and Con arguments placed in the Judge's messages
    saves,         \* number of saveReport calls
    ret,           \* what Execute returned
    cancelAt,      \* where Execute stood when the context was cancelled
    doneOrder,     \* the Phase-1 roles in the order of their wg.Done
    saved,         \* outcome of saveReport: none, ok, fail
    acc,           \* the reads and writes of Result's fields and of proErr / conErr, in order
    cli,           \* the CLI runner's runStreaming: its flags, its mutex and the Judge spinner
    feed,          \* a StreamParser driven on its own: the parser, the text still to feed, the Feed returns
    sse,           \* handleStream driven on its own: the lines of the body, the reader's position and output
    conf,          \* Options.ApplyToConfig driven on its own: the options, the config, the configs before
    inp            \* readMultiLineInput driven on its own: the lines on stdin, the loop's locals, the text

vars == <<pc, stream, onRole, onJudgeStart, provider, gen, ctxCancelled, wg, tpc,
          delivered, sess, parser, roleErr, result, events, judgeStarts, judgeMsgs,
          saves, ret, cancelAt, doneOrder, saved, acc, cli, feed, sse, conf, inp>>

\* the state of the units driven on their own
unitVars == <<feed, sse, conf, inp>>

Roles == {"Pro", "Con", "Judge"}

Phase1Roles == {"Pro", "Con"}

Providers == {"deepseek", "gemini", "dashscope"}

\* the providers whose streaming reader is the SSE scanner loop
SSEProviders == {"deepseek", "dashscope"}

----------------------------------------------------------------------------
(* Text helpers *)

WS == "_"

IsPrefixAt(s, m, i) == i + Len(m) - 1 <= Len(s) /\ SubSeq(s, i, i + Len(m) - 1) = m

\* strings.Index, 1-based; 0 when m does not occur in s
Index(s, m) ==
    IF \E i \in 1..Len(s) : IsPrefixAt(s, m, i)
    THEN CHOOSE i \in 1..Len(s) : IsPrefixAt(s, m, i) /\ \A j \in 1..(i - 1) : ~IsPrefixAt(s, m, j)
    ELSE 0

Contains(s, m) == Index(s, m) # 0

RECURSIVE TrimLeft(_)
TrimLeft(s) == IF s # <<>> /\ Head(s) = WS THEN TrimLeft(Tail(s)) ELSE s

RECURSIVE TrimRight(_)
TrimRight(s) == IF s # <<>> /\ s[Len(s)] = WS THEN TrimRight(SubSeq(s, 1, Len(s) - 1)) ELSE s

\* strings.TrimSpace
TrimSpace(s) == TrimRight(TrimLeft(s))

RECURSIVE Concat(_)
Concat(chunks) == IF chunks = <<>> THEN <<>> ELSE Head(chunks) \o Concat(Tail(chunks))

----------------------------------------------------------------------------
(* StreamParser *)

\* the heading that opens the headline section
OneLinerToken == <<"#", "O">>

\* NewStreamParser("## Full Argument") for Pro and Con, NewStreamParser("## Full Verdict") for Judge
MarkerOf(r) == IF r = "Judge" THEN <<"#", "V">> ELSE <<"#", "F">>

NewStreamParser(marker) ==
    [marker |-> marker, buffer |-> <<>>, headlineFound |-> FALSE, oneLiner |-> <<>>,
     fullBody |-> <<>>, finalized |-> FALSE]

\* the last place the text m occurs in the text s, 0 when it does not occur
LastIndex(s, m) ==
    LET at == {i \in 1..Len(s) : IsPrefixAt(s, m, i)}
    IN  IF at = {} THEN 0 ELSE CHOOSE i \in at : \A j \in at : j <= i

\* the headline taken after the first one-liner heading of the region: a later heading stays in it
CleanOneLinerFirst(region) ==
    LET i == Index(region, OneLinerToken)
    IN  IF i = 0 THEN TrimSpace(region)
        ELSE TrimSpace(SubSeq(region, i + Len(OneLinerToken), Len(region)))

\* the headline: the region before the marker, after the one-liner heading, trimmed
CleanOneLiner(region) ==
    LET i == LastIndex(region, OneLinerToken)
    IN  IF i = 0 THEN TrimSpace(region)
        ELSE TrimSpace(SubSeq(region, i + Len(OneLinerToken), Len(region)))

\* a Feed that drops the chunks that come after the marker was found
FeedStateDropsLater(p, chunk) ==
    LET buf == p.buffer \o chunk
        i   == Index(buf, p.marker)
    IN  IF p.finalized THEN p
        ELSE IF p.headlineFound
        THEN [p EXCEPT !.buffer = buf]
        ELSE IF i = 0
             THEN [p EXCEPT !.buffer = buf]
             ELSE [p EXCEPT !.buffer = buf,
                            !.headlineFound = TRUE,
                            !.oneLiner = CleanOneLiner(SubSeq(buf, 1, i - 1)),
                            !.fullBody = SubSeq(buf, i + Len(p.marker), Len(buf))]

\* a Feed that still appends and searches after Finalize
FeedStateUnguarded(p, chunk) ==
    LET buf == p.buffer \o chunk
        i   == Index(buf, p.marker)
    IN  IF p.headlineFound
        THEN [p EXCEPT !.buffer = buf, !.fullBody = p.fullBody \o chunk]
        ELSE IF i = 0
             THEN [p EXCEPT !.buffer = buf]
             ELSE [p EXCEPT !.buffer = buf,
                            !.headlineFound = TRUE,
                            !.oneLiner = CleanOneLiner(SubSeq(buf, 1, i - 1)),
                            !.fullBody = SubSeq(buf, i + Len(p.marker), Len(buf))]

\* Feed: the parser after the chunk; after Finalize a Feed changes nothing
FeedState(p, chunk) ==
    LET buf == p.buffer \o chunk
        i   == Index(buf, p.marker)
    IN  IF p.finalized THEN p
        ELSE IF p.headlineFound
        THEN [p EXCEPT !.buffer = buf, !.fullBody = p.fullBody \o chunk]
        ELSE IF i = 0
             THEN [p EXCEPT !.buffer = buf]
             ELSE [p EXCEPT !.buffer = buf,
                            !.headlineFound = TRUE,
                            !.oneLiner = CleanOneLiner(SubSeq(buf, 1, i - 1)),
                            !.fullBody = SubSeq(buf, i + Len(p.marker), Len(buf))]

\* a justFound that looks for the marker in the chunk alone
FeedFoundPerChunk(p, chunk) == ~p.finalized /\ ~p.headlineFound /\ Contains(chunk, p.marker)

\* Feed: the justFound return value
FeedFound(p, chunk) ==
    ~p.finalized /\ ~p.headlineFound /\ Contains(p.buffer \o chunk, p.marker)

\* Feed: the headline return value
FeedOneLiner(p, chunk) == IF FeedFound(p, chunk) THEN FeedState(p, chunk).oneLiner ELSE <<>>

\* a Finalize without the fallback: no marker, no full body
FinalizeNoFallback(p) ==
    [p EXCEPT !.fullBody = TrimSpace(p.fullBody), !.finalized = TRUE]

\* Finalize: the trimmed text after the marker, or the whole buffer when there was no marker
Finalize(p) ==
    [p EXCEPT !.fullBody = IF p.headlineFound THEN TrimSpace(p.fullBody) ELSE p.buffer,
              !.finalized = TRUE]

----------------------------------------------------------------------------
(* Backend output *)

\* number of body chunks a backend streams after the marker
MaxBody == 2

GenKinds == {"split", "plain", "twice", "bare"}

\* the chunk sequence of a role's whole generation: a headline, the marker and a body; the
\* same with the marker once more inside the body; a headline and the marker with nothing
\* after it; or a text without the marker
GenOf(r, kind) ==
    CASE kind = "split" ->
            <<OneLinerToken \o <<"a", WS>>, MarkerOf(r)>> \o [i \in 1..MaxBody |-> <<"b">>]
      [] kind = "twice" ->
            <<OneLinerToken \o <<"a", WS>>, MarkerOf(r), <<"b">>, MarkerOf(r)>>
               \o [i \in 1..MaxBody - 1 |-> <<"b">>]
      [] kind = "bare" -> <<OneLinerToken \o <<"a", WS>>, MarkerOf(r)>>
      [] OTHER -> <<<<"a">>, <<"b">>>>

\* the full body of a role's whole generation: what its parser yields on the complete text
CompleteBody(r) == Finalize(FeedState(NewStreamParser(MarkerOf(r)), Concat(gen[r]))).fullBody

----------------------------------------------------------------------------
(* Errors *)

NoErr == [wrap |-> "nil", cause |-> "nil"]

\* fmt.Errorf(wrap + ": %w", cause)
Errorf(wrap, cause) == [wrap |-> wrap, cause |-> cause]

\* the name Execute wraps a role's session error with
RoleName(r) == CASE r = "Pro" -> "affirmative" [] r = "Con" -> "negative" [] OTHER -> "adjudicator"

CreateName(r) ==
    CASE r = "Pro" -> "create pro client" [] r = "Con" -> "create con client"
      [] OTHER -> "create judge client"

IsErrCause(c) == c \in {"transport", "canceled"}

----------------------------------------------------------------------------
(* Result *)

EmptyResult ==
    [ProOneLiner |-> <<>>, ProFullBody |-> <<>>, ConOneLiner |-> <<>>, ConFullBody |-> <<>>,
     VerdictOneLiner |-> <<>>, VerdictFullBody |-> <<>>, ReportPath |-> ""]

Record(res, r, oneLiner, fullBody) ==
    CASE r = "Pro" -> [res EXCEPT !.ProOneLiner = oneLiner, !.ProFullBody = fullBody]
      [] r = "Con" -> [res EXCEPT !.ConOneLiner = oneLiner, !.ConFullBody = fullBody]
      [] OTHER     -> [res EXCEPT !.VerdictOneLiner = oneLiner, !.VerdictFullBody = fullBody]

\* streaming branch: Finalize, record, fall back to the whole buffer on an empty body
RecordStreaming(res, r, p) ==
    LET f == Finalize(p)
    IN  Record(res, r, f.oneLiner, IF f.fullBody = <<>> THEN f.buffer ELSE f.fullBody)

\* non-streaming branch: Feed(full), Finalize, record
RecordFull(res, r, p, full) ==
    LET f == Finalize(FeedState(p, full))
    IN  Record(res, r, f.oneLiner, f.fullBody)

----------------------------------------------------------------------------
(* Reads and writes of the shared variables *)

\* the goroutine that does a role's work: the Judge's is done by Execute itself
TaskOf(r) == IF r = "Judge" THEN "Main" ELSE r

OneLinerField(r) ==
    CASE r = "Pro" -> "ProOneLiner" [] r = "Con" -> "ConOneLiner" [] OTHER -> "VerdictOneLiner"

FullBodyField(r) ==
    CASE r = "Pro" -> "ProFullBody" [] r = "Con" -> "ConFullBody" [] OTHER -> "VerdictFullBody"

\* both Phase-1 goroutines storing their error in the one variable
ErrVarShared(r) == "proErr"

\* var proErr, conErr error
ErrVar(r) == IF r = "Pro" THEN "proErr" ELSE "conErr"

Write(task, field, joined) == [task |-> task, op |-> "w", field |-> field, joined |-> joined]

Read(task, field, joined) == [task |-> task, op |-> "r", field |-> field, joined |-> joined]

\* streaming branch: the two assignments, the test of the full body, the fallback assignment
StreamingAccesses(r, p, joined) ==
    <<Write(TaskOf(r), OneLinerField(r), joined), Write(TaskOf(r), FullBodyField(r), joined),
      Read(TaskOf(r), FullBodyField(r), joined)>>
      \o (IF Finalize(p).fullBody = <<>>
          THEN <<Write(TaskOf(r), FullBodyField(r), joined)>> ELSE <<>>)

\* non-streaming branch: the two assignments when the call succeeded
FullAccesses(r, ok, joined) ==
    IF ok THEN <<Write(TaskOf(r), OneLinerField(r), joined), Write(TaskOf(r), FullBodyField(r), joined)>>
    ELSE <<>>

\* a Phase-1 goroutine after its session call: the record, then proErr / conErr, which the
\* non-streaming branch assigns whatever the outcome and the streaming branch on an error
Phase1Accesses(r, streaming, sret, p) ==
    (IF streaming THEN StreamingAccesses(r, p, FALSE) ELSE FullAccesses(r, sret = "ok", FALSE))
      \o (IF ~streaming \/ IsErrCause(sret) THEN <<Write(r, ErrVar(r), FALSE)>> ELSE <<>>)

\* the two error checks after wg.Wait
JoinAccesses(proErr) ==
    <<Read("Main", ErrVar("Pro"), TRUE)>>
      \o (IF proErr = NoErr THEN <<Read("Main", ErrVar("Con"), TRUE)>> ELSE <<>>)

\* BuildAdjudicatorMessages(material, result.ProFullBody, result.ConFullBody)
MessagesAccesses == <<Read("Main", "ProFullBody", TRUE), Read("Main", "ConFullBody", TRUE)>>

\* saveReport: the six text fields go into the report; ReportPath is set once it is written
SaveAccesses(ok) ==
    [i \in 1..6 |-> Read("Main", <<"ProOneLiner", "ProFullBody", "ConOneLiner", "ConFullBody",
                                   "VerdictOneLiner", "VerdictFullBody">>[i], TRUE)]
      \o (IF ok THEN <<Write("Main", "ReportPath", TRUE)>> ELSE <<>>)

----------------------------------------------------------------------------
(* State *)

NewSession ==
    [client |-> "none", acquired |-> 0, calls |-> 0, sent |-> FALSE, cut |-> "no", ret |-> "none"]

\* the streaming branch taken whenever streaming is on, the callback not looked at
StreamingUnchecked(r) == stream

\* the role runs in streaming mode
Streaming(r) == stream /\ onRole[r]

\* no parser is driven on its own
IdleFeed == [p |-> NewStreamParser(<<>>), text |-> <<>>, pos |-> 0, empties |-> 0, founds |-> 0,
             foundPos |-> 0, foundChunk |-> <<>>, last |-> [oneLiner |-> <<>>, found |-> FALSE],
             finalPos |-> -1]

\* a parser about to be fed the text, chunk by chunk
NewFeed(marker, text) == [IdleFeed EXCEPT !.p = NewStreamParser(marker), !.text = text]

\* no stream reader is driven on its own
IdleSSE == [lines |-> <<>>, pos |-> 0, onChunk |-> FALSE, stopped |-> FALSE, fullContent |-> <<>>,
            chunks |-> <<>>, returned |-> FALSE, text |-> <<>>, err |-> "none"]

\* config.New(): the default configuration of the three roles
NewConfig ==
    [Pro   |-> [Provider |-> "deepseek", Model |-> "deepseek-chat", Temperature |-> "0.8",
                MaxTokens |-> "4096"],
     Con   |-> [Provider |-> "deepseek", Model |-> "deepseek-chat", Temperature |-> "0.8",
                MaxTokens |-> "4096"],
     Judge |-> [Provider |-> "gemini", Model |-> "gemini-2.0-flash", Temperature |-> "0.1",
                MaxTokens |-> "8192"]]

\* no options are applied on their own
IdleConf == [opts |-> [r \in Roles |-> [Provider |-> "", Model |-> ""]], cfg |-> NewConfig,
             before |-> NewConfig, first |-> NewConfig, applied |-> 0, selected |-> FALSE]

\* no input is read on its own
IdleInput == [reading |-> FALSE, stdin |-> <<>>, pos |-> 0, lines |-> <<>>, emptyCount |-> 0,
              stopped |-> FALSE, failed |-> FALSE, returned |-> FALSE, text |-> <<>>,
              err |-> "none"]

----------------------------------------------------------------------------
(* The CLI runner's streaming mode: status flags, mutex, Judge spinner *)

\* the most redraws of the Judge spinner that are told apart
MaxTicks == 1

\* runStreaming not entered: flags as declared, no spinner, stopSpinner and spinnerOnce untouched
IdleCLI ==
    [phase |-> "idle", proStatus |-> "Thinking", conStatus |-> "Thinking",
     proDone |-> FALSE, conDone |-> FALSE, judgeDone |-> FALSE,
     stopSpinner |-> FALSE, spinnerOnce |-> FALSE,
     starts |-> <<>>, spinning |-> 0, ticks |-> 0, access |-> {}, err |-> NoErr]

DoneFlag(r) == CASE r = "Pro" -> "proDone" [] r = "Con" -> "conDone" [] OTHER -> "judgeDone"

StatusFlag(r) == IF r = "Pro" THEN "proStatus" ELSE "conStatus"

OtherRole(r) == IF r = "Pro" THEN "Con" ELSE "Pro"

\* reads or writes of status flags, with or without mu held; the flags are shared once the
\* callbacks that close over them are installed
Touch(c, flags, op, held) ==
    [c EXCEPT !.access = @ \cup {[flag |-> f, op |-> op, held |-> held,
                                   shared |-> c.phase = "running"] : f \in flags}]

\* updateStatus: the status of Pro and Con until both are done, then the Judge's
UpdateStatus(c, held) ==
    IF ~c.proDone THEN Touch(c, {"proDone", "proStatus", "conStatus"}, "read", held)
    ELSE IF ~c.conDone THEN Touch(c, {"proDone", "conDone", "proStatus", "conStatus"}, "read", held)
    ELSE Touch(c, {"proDone", "conDone", "judgeDone"}, "read", held)

\* if conDone { startJudgeSpinner() } in the Pro callback, and its mirror in the Con callback
StartsJudgeSpinner(otherDone) == otherDone

\* startJudgeSpinner: a new stop channel, stopSpinner set, the spinner goroutine started
StartJudgeSpinner(c, r) ==
    [c EXCEPT !.stopSpinner = TRUE, !.starts = Append(@, r), !.spinning = @ + 1]

\* stopSpinner: under spinnerOnce, close(stop) and wait for the spinner goroutine to return
StopSpinner(c) ==
    IF c.spinnerOnce THEN c ELSE [c EXCEPT !.spinnerOnce = TRUE, !.spinning = @ - 1]

\* the Pro and the Con callback, called with mu held throughout
Phase1Callback(c, r, done) ==
    IF done
    THEN LET c1 == [Touch(c, {DoneFlag(r)}, "write", TRUE) EXCEPT ![DoneFlag(r)] = TRUE]
             c2 == Touch(c1, {DoneFlag(OtherRole(r))}, "read", TRUE)
         IN  IF StartsJudgeSpinner(c[DoneFlag(OtherRole(r))]) THEN StartJudgeSpinner(c2, r) ELSE c2
    ELSE UpdateStatus([Touch(c, {StatusFlag(r)}, "write", TRUE) EXCEPT ![StatusFlag(r)] = "Ready"],
                      TRUE)

\* the Judge callback, with mu held: stop the spinner on first activity, note the done event
JudgeCallback(c, done) ==
    LET c1 == IF c.stopSpinner THEN StopSpinner(c) ELSE c
    IN  IF done THEN [Touch(c1, {"judgeDone"}, "write", TRUE) EXCEPT !.judgeDone = TRUE] ELSE c1

\* the callback runStreaming installed for the role, when it is runStreaming that runs Execute
RoleCallback(c, r, done) ==
    IF c.phase # "running" THEN c
    ELSE IF r \in Phase1Roles THEN Phase1Callback(c, r, done) ELSE JudgeCallback(c, done)

----------------------------------------------------------------------------
(* Initial states *)

\* NewExecutor(cfg), with the roles' providers and the backends' output drawn from the given sets
InitExecutor(providers, kinds) ==
    /\ pc = "init"
    /\ stream = FALSE
    /\ onRole = [r \in Roles |-> FALSE]
    /\ onJudgeStart = FALSE
    /\ provider \in [Roles -> providers]
    /\ \E k \in [Roles -> kinds] : gen = [r \in Roles |-> GenOf(r, k[r])]
    /\ ctxCancelled = FALSE
    /\ wg = 0
    /\ tpc = [r \in Roles |-> "idle"]
    /\ delivered = [r \in Roles |-> 0]
    /\ sess = [r \in Roles |-> NewSession]
    /\ parser = [r \in Roles |-> NewStreamParser(MarkerOf(r))]
    /\ roleErr = [r \in Phase1Roles |-> NoErr]
    /\ result = EmptyResult
    /\ events = [r \in Roles |-> <<>>]
    /\ judgeStarts = 0
    /\ judgeMsgs = [built |-> FALSE, pro |-> <<>>, con |-> <<>>]
    /\ saves = 0
    /\ ret = [returned |-> FALSE, hasResult |-> FALSE, err |-> NoErr]
    /\ cancelAt = "never"
    /\ doneOrder = <<>>
    /\ saved = "none"
    /\ acc = <<>>
    /\ cli = IdleCLI

\* the executor alone: no parser and no stream reader is driven on its own
InitWith(providers, kinds) ==
    /\ InitExecutor(providers, kinds)
    /\ feed = IdleFeed
    /\ sse = IdleSSE
    /\ conf = IdleConf
    /\ inp = IdleInput

\* every provider for every role; each backend generates a headline, the marker and a body
Init == InitWith(Providers, {"split"})

\* one provider; each backend repeats the marker in its body, ends at the marker or omits it
InitText == InitWith({"gemini"}, {"twice", "plain", "bare"})

cfgVars == <<stream, onRole, onJudgeStart, provider, gen>>

----------------------------------------------------------------------------
(* Configuration *)

SetStream(onPro, onCon, onJudge) ==
    /\ pc = "init"
    /\ stream' = TRUE
    /\ onRole' = [r \in Roles |-> CASE r = "Pro" -> onPro [] r = "Con" -> onCon [] OTHER -> onJudge]
    /\ UNCHANGED <<acc, saved, cli, unitVars, cancelAt, doneOrder, pc, onJudgeStart, provider, gen, ctxCancelled, wg, tpc, delivered, sess,
                   parser, roleErr, result, events, judgeStarts, judgeMsgs, saves, ret>>

SetJudgeStartCallback(cb) ==
    /\ pc = "init"
    /\ onJudgeStart' = cb
    /\ UNCHANGED <<acc, saved, cli, unitVars, cancelAt, doneOrder, pc, stream, onRole, provider, gen, ctxCancelled, wg, tpc, delivered, sess,
                   parser, roleErr, result, events, judgeStarts, judgeMsgs, saves, ret>>

----------------------------------------------------------------------------
(* The shared context *)

Running == pc \in {"wait", "gate", "judgeNew", "judge"}

\* where the cancellation lands: during Phase 1, after the join and before the Judge's
\* request is issued, or during the Judge's call
CancelPoint ==
    CASE pc = "wait" -> "phase1"
      [] pc \in {"gate", "judgeNew"} \/ tpc["Judge"] = "call" -> "beforeJudge"
      [] OTHER -> "phase2"

Cancel ==
    /\ Running
    /\ ~ctxCancelled
    /\ ctxCancelled' = TRUE
    /\ cancelAt' = CancelPoint
    /\ UNCHANGED <<acc, saved, cli, unitVars, doneOrder, pc, cfgVars, wg, tpc, delivered, sess, parser, roleErr, result, events,
                   judgeStarts, judgeMsgs, saves, ret>>

----------------------------------------------------------------------------
(* A role's session: Chat / ChatStream of the role's provider *)

\* a caller that makes the call again when it returned an error
AfterCallRetry(sret) == IF IsErrCause(sret) THEN "call" ELSE "ret"

\* where a role's work stands once its session call returned: whatever the call returned,
\* the caller goes on to record the outcome
AfterCall(sret) == "ret"

\* the request: it fails on a cancelled context, and may fail in the transport
SessionOpen(r) ==
    /\ tpc[r] = "call"
    /\ \/ /\ ~ctxCancelled
          /\ sess' = [sess EXCEPT ![r].calls = @ + 1, ![r].sent = TRUE]
          /\ tpc' = [tpc EXCEPT ![r] = IF Streaming(r) THEN "streaming" ELSE "reading"]
       \/ /\ sess' = [sess EXCEPT ![r].calls = @ + 1,
                                  ![r].ret = IF ctxCancelled THEN "canceled" ELSE "transport"]
          /\ tpc' = [tpc EXCEPT ![r] = AfterCall(IF ctxCancelled THEN "canceled" ELSE "transport")]
    /\ UNCHANGED <<acc, saved, cli, unitVars, cancelAt, doneOrder, pc, cfgVars, ctxCancelled, wg, delivered, parser, roleErr, result, events,
                   judgeStarts, judgeMsgs, saves, ret>>

\* a chunk callback that notifies on every chunk once the headline is known
OnChunkWhileFound(r, chunk) ==
    /\ parser' = [parser EXCEPT ![r] = FeedState(@, chunk)]
    /\ cli' = IF FeedState(parser[r], chunk).headlineFound THEN RoleCallback(cli, r, FALSE) ELSE cli
    /\ events' = IF FeedState(parser[r], chunk).headlineFound
                 THEN [events EXCEPT ![r] = Append(@, [text |-> FeedState(parser[r], chunk).oneLiner,
                                                        done |-> FALSE])]
                 ELSE events

\* the chunk callback Execute passes to ChatStream: Feed, and the headline event when found
OnChunk(r, chunk) ==
    /\ parser' = [parser EXCEPT ![r] = FeedState(@, chunk)]
    /\ cli' = IF FeedFound(parser[r], chunk) THEN RoleCallback(cli, r, FALSE) ELSE cli
    /\ events' = IF FeedFound(parser[r], chunk)
                 THEN [events EXCEPT ![r] = Append(@, [text |-> FeedOneLiner(parser[r], chunk),
                                                        done |-> FALSE])]
                 ELSE events

\* one accepted chunk of the stream
StreamChunk(r) ==
    /\ tpc[r] = "streaming"
    /\ delivered[r] < Len(gen[r])
    /\ delivered' = [delivered EXCEPT ![r] = @ + 1]
    /\ OnChunk(r, gen[r][delivered[r] + 1])
    /\ UNCHANGED <<acc, saved, unitVars, cancelAt, doneOrder, pc, cfgVars, ctxCancelled, wg, tpc, sess, roleErr, result,
                   judgeStarts, judgeMsgs, saves, ret>>

\* the stream ends after its last chunk
StreamEnd(r) ==
    /\ tpc[r] = "streaming"
    /\ delivered[r] = Len(gen[r])
    /\ sess' = [sess EXCEPT ![r].ret = "ok"]
    /\ tpc' = [tpc EXCEPT ![r] = "ret"]
    /\ UNCHANGED <<acc, saved, cli, unitVars, cancelAt, doneOrder, pc, cfgVars, ctxCancelled, wg, delivered, parser, roleErr, result, events,
                   judgeStarts, judgeMsgs, saves, ret>>

\* what the streaming reader returns when reading the body fails
StreamReadError(p, cause) == IF p \in SSEProviders THEN "ok" ELSE cause

\* reading the body fails: a transport failure, or the cancelled context
StreamCut(r) ==
    /\ tpc[r] = "streaming"
    /\ \E cause \in {"transport"} \cup (IF ctxCancelled THEN {"canceled"} ELSE {}) :
          sess' = [sess EXCEPT ![r].cut = cause, ![r].ret = StreamReadError(provider[r], cause)]
    /\ tpc' = [tpc EXCEPT ![r] = "ret"]
    /\ UNCHANGED <<acc, saved, cli, unitVars, cancelAt, doneOrder, pc, cfgVars, ctxCancelled, wg, delivered, parser, roleErr, result, events,
                   judgeStarts, judgeMsgs, saves, ret>>

\* the blocking call returns the whole text, or an error
ChatReturn(r) ==
    /\ tpc[r] = "reading"
    /\ \E out \in {"ok", "transport"} \cup (IF ctxCancelled THEN {"canceled"} ELSE {}) :
          /\ sess' = [sess EXCEPT ![r].ret = out]
          /\ tpc' = [tpc EXCEPT ![r] = AfterCall(out)]
    /\ UNCHANGED <<acc, saved, cli, unitVars, cancelAt, doneOrder, pc, cfgVars, ctxCancelled, wg, delivered, parser, roleErr, result, events,
                   judgeStarts, judgeMsgs, saves, ret>>

----------------------------------------------------------------------------
(* Execute *)

\* Execute up to wg.Add(2) and the two go statements
Execute ==
    /\ pc = "init"
    /\ pc' = "wait"
    /\ result' = EmptyResult
    /\ roleErr' = [r \in Phase1Roles |-> NoErr]
    /\ parser' = [r \in Roles |-> NewStreamParser(MarkerOf(r))]
    /\ wg' = 2
    /\ tpc' = [r \in Roles |-> IF r \in Phase1Roles THEN "new" ELSE "idle"]
    /\ acc' = <<Write("Main", "Material", FALSE)>>
    /\ UNCHANGED <<saved, cli, unitVars, cancelAt, doneOrder, cfgVars, ctxCancelled, delivered, sess, events, judgeStarts, judgeMsgs,
                   saves, ret>>

\* an early return that does not signal the wait group
DeferredDoneMissing(n) == n

\* defer wg.Done(): the counter after a goroutine returned, on whatever path
DeferredDone(n) == n - 1

\* a Phase-1 goroutine: llm.NewClient, and the early return (with the deferred wg.Done) on failure
TaskNewClient(r) ==
    /\ r \in Phase1Roles
    /\ tpc[r] = "new"
    /\ \/ /\ sess' = [sess EXCEPT ![r].client = "ok", ![r].acquired = @ + 1]
          /\ tpc' = [tpc EXCEPT ![r] = "call"]
          /\ UNCHANGED <<roleErr, wg, doneOrder, acc>>
       \/ /\ sess' = [sess EXCEPT ![r].client = "fail", ![r].acquired = @ + 1]
          /\ roleErr' = [roleErr EXCEPT ![r] = Errorf(CreateName(r), "config")]
          /\ acc' = Append(acc, Write(r, ErrVar(r), FALSE))
          /\ wg' = DeferredDone(wg)
          /\ doneOrder' = Append(doneOrder, r)
          /\ tpc' = [tpc EXCEPT ![r] = "done"]
    /\ UNCHANGED <<saved, cli, unitVars, cancelAt, pc, cfgVars, ctxCancelled, delivered, parser, result, events,
                   judgeStarts, judgeMsgs, saves, ret>>

\* the error of the blocking call is dropped instead of being stored
Phase1ErrDropped(r, streaming, sret) ==
    IF streaming /\ IsErrCause(sret) THEN Errorf(RoleName(r), sret) ELSE NoErr

\* the error a Phase-1 goroutine leaves in proErr / conErr after its session call returned
Phase1Err(r, streaming, sret) ==
    IF ~IsErrCause(sret) THEN NoErr
    ELSE IF streaming THEN Errorf(RoleName(r), sret)
    ELSE [wrap |-> "", cause |-> sret]

\* the done signal raised ahead of the events the callback has already received
SignalDoneAhead(log) == <<[text |-> <<>>, done |-> TRUE]>> \o log

\* e.onPro("", true) after the session call and Finalize: the done event closes the role's events
SignalDone(log) == Append(log, [text |-> <<>>, done |-> TRUE])

\* a Phase-1 goroutine after its session call returned, up to the deferred wg.Done
Phase1Finish(r) ==
    /\ r \in Phase1Roles
    /\ tpc[r] = "ret"
    /\ IF Streaming(r)
       THEN /\ parser' = [parser EXCEPT ![r] = Finalize(@)]
            /\ result' = RecordStreaming(result, r, parser[r])
            /\ events' = [events EXCEPT ![r] = SignalDone(@)]
            /\ cli' = RoleCallback(cli, r, TRUE)
       ELSE /\ IF sess[r].ret = "ok"
               THEN /\ parser' = [parser EXCEPT ![r] = Finalize(FeedState(@, Concat(gen[r])))]
                    /\ result' = RecordFull(result, r, parser[r], Concat(gen[r]))
               ELSE UNCHANGED <<parser, result>>
            /\ UNCHANGED <<events, cli>>
    /\ roleErr' = [roleErr EXCEPT ![r] = Phase1Err(r, Streaming(r), sess[r].ret)]
    /\ acc' = acc \o Phase1Accesses(r, Streaming(r), sess[r].ret, parser[r])
    /\ wg' = wg - 1
    /\ doneOrder' = Append(doneOrder, r)
    /\ tpc' = [tpc EXCEPT ![r] = "done"]
    /\ UNCHANGED <<saved, unitVars, cancelAt, pc, cfgVars, ctxCancelled, delivered, sess, judgeStarts, judgeMsgs,
                   saves, ret>>

\* wg.Wait as if only one task had been added to the group
WaitReturnsAfterOne(n) == n <= 1

\* wg.Wait as an error group's wait, which returns at the first error
WaitReturnsOnError(n) == n = 0 \/ \E r \in Phase1Roles : roleErr[r] # NoErr

\* wg.Wait returns when the counter is zero
WaitReturns(n) == n = 0

\* the error of whichever Phase-1 goroutine finished first
JoinErrFirstDone(proErr, conErr) ==
    IF doneOrder # <<>> /\ doneOrder[1] = "Con" /\ conErr # NoErr THEN conErr
    ELSE IF proErr # NoErr THEN proErr ELSE conErr

\* Con's error checked before Pro's
JoinErrConFirst(proErr, conErr) == IF conErr # NoErr THEN conErr ELSE proErr

\* the Phase-1 error Execute returns after the join: Pro's before Con's
JoinErr(proErr, conErr) == IF proErr # NoErr THEN proErr ELSE conErr

\* an Execute that goes on to Phase 2 after a Phase-1 error
AfterJoinGoesOn(err) == "gate"

\* where Execute stands after the two error checks: returned on an error, else before Phase 2
AfterJoin(err) == IF err # NoErr THEN "returned" ELSE "gate"

\* wg.Wait and the two error checks after it
Join ==
    /\ pc = "wait"
    /\ WaitReturns(wg)
    /\ IF JoinErr(roleErr["Pro"], roleErr["Con"]) # NoErr
       THEN /\ ret' = [returned |-> TRUE, hasResult |-> FALSE,
                       err |-> JoinErr(roleErr["Pro"], roleErr["Con"])]
       ELSE /\ UNCHANGED ret
    /\ pc' = AfterJoin(JoinErr(roleErr["Pro"], roleErr["Con"]))
    /\ acc' = acc \o JoinAccesses(roleErr["Pro"])
    /\ UNCHANGED <<saved, cli, unitVars, cancelAt, doneOrder, cfgVars, ctxCancelled, wg, tpc, delivered, sess, parser, roleErr, result,
                   events, judgeStarts, judgeMsgs, saves>>

\* a phase-transition notification that is never delivered
CallJudgeStartDropped(cb, n) == n

\* if e.onJudgeStart != nil { e.onJudgeStart() }: the number of notifications after it
CallJudgeStart(cb, n) == IF cb THEN n + 1 ELSE n

\* the phase-transition notification
JudgeStart ==
    /\ pc = "gate"
    /\ judgeStarts' = CallJudgeStart(onJudgeStart, judgeStarts)
    /\ pc' = "judgeNew"
    /\ UNCHANGED <<acc, saved, cli, unitVars, cancelAt, doneOrder, cfgVars, ctxCancelled, wg, tpc, delivered, sess, parser, roleErr, result,
                   events, judgeMsgs, saves, ret>>

\* prompt.BuildAdjudicatorMessages(material, result.ProFullBody, result.ConFullBody)
BuildAdjudicatorMessages(res) == [built |-> TRUE, pro |-> res.ProFullBody, con |-> res.ConFullBody]

\* llm.NewClient for the Judge, then the messages and the Judge's parser
JudgeNewClient ==
    /\ pc = "judgeNew"
    /\ \/ /\ sess' = [sess EXCEPT !["Judge"].client = "ok", !["Judge"].acquired = @ + 1]
          /\ judgeMsgs' = BuildAdjudicatorMessages(result)
          /\ acc' = acc \o MessagesAccesses
          /\ tpc' = [tpc EXCEPT !["Judge"] = "call"]
          /\ pc' = "judge"
          /\ UNCHANGED ret
       \/ /\ sess' = [sess EXCEPT !["Judge"].client = "fail", !["Judge"].acquired = @ + 1]
          /\ pc' = "returned"
          /\ ret' = [returned |-> TRUE, hasResult |-> FALSE,
                     err |-> Errorf(CreateName("Judge"), "config")]
          /\ UNCHANGED <<judgeMsgs, tpc, acc>>
    /\ UNCHANGED <<saved, cli, unitVars, cancelAt, doneOrder, cfgVars, ctxCancelled, wg, delivered, parser, roleErr, result, events,
                   judgeStarts, saves>>

\* the error Execute returns after the Judge's session call returned
JudgeErr(streaming, sret) ==
    IF streaming \/ ~IsErrCause(sret) THEN NoErr ELSE Errorf(RoleName("Judge"), sret)

\* saveReport: the report path when the file was written
SaveReport(res, ok) == [res EXCEPT !.ReportPath = IF ok THEN "reports/debate.md" ELSE ""]

\* Execute after the Judge's session call returned: record, saveReport, return
JudgeFinish ==
    /\ pc = "judge"
    /\ tpc["Judge"] = "ret"
    /\ tpc' = [tpc EXCEPT !["Judge"] = "done"]
    /\ pc' = "returned"
    /\ IF JudgeErr(Streaming("Judge"), sess["Judge"].ret) # NoErr
       THEN /\ ret' = [returned |-> TRUE, hasResult |-> FALSE,
                       err |-> JudgeErr(Streaming("Judge"), sess["Judge"].ret)]
            /\ UNCHANGED <<parser, result, events, saves, saved, acc, cli>>
       ELSE /\ ret' = [returned |-> TRUE, hasResult |-> TRUE, err |-> NoErr]
            /\ saves' = saves + 1
            /\ IF Streaming("Judge")
               THEN /\ parser' = [parser EXCEPT !["Judge"] = Finalize(@)]
                    /\ events' = [events EXCEPT !["Judge"] = SignalDone(@)]
                    /\ cli' = RoleCallback(cli, "Judge", TRUE)
                    /\ \E ok \in BOOLEAN :
                          /\ result' = SaveReport(RecordStreaming(result, "Judge", parser["Judge"]), ok)
                          /\ saved' = IF ok THEN "ok" ELSE "fail"
                          /\ acc' = acc \o StreamingAccesses("Judge", parser["Judge"], TRUE)
                                        \o SaveAccesses(ok)
               ELSE /\ parser' = [parser EXCEPT !["Judge"] =
                                     Finalize(FeedState(@, Concat(gen["Judge"])))]
                    /\ UNCHANGED <<events, cli>>
                    /\ \E ok \in BOOLEAN :
                          /\ result' = SaveReport(RecordFull(result, "Judge", parser["Judge"],
                                                              Concat(gen["Judge"])), ok)
                          /\ saved' = IF ok THEN "ok" ELSE "fail"
                          /\ acc' = acc \o FullAccesses("Judge", TRUE, TRUE) \o SaveAccesses(ok)
    /\ UNCHANGED <<unitVars, cancelAt, doneOrder, cfgVars, ctxCancelled, wg, delivered, sess, roleErr, judgeStarts, judgeMsgs>>

----------------------------------------------------------------------------

Next ==
    \/ \E p, c, j \in BOOLEAN : SetStream(p, c, j)
    \/ \E cb \in BOOLEAN : SetJudgeStartCallback(cb)
    \/ Execute
    \/ Cancel
    \/ \E r \in Roles : TaskNewClient(r)
    \/ \E r \in Roles : SessionOpen(r)
    \/ \E r \in Roles : StreamChunk(r)
    \/ \E r \in Roles : StreamEnd(r)
    \/ \E r \in Roles : StreamCut(r)
    \/ \E r \in Roles : ChatReturn(r)
    \/ \E r \in Roles : Phase1Finish(r)
    \/ Join
    \/ JudgeStart
    \/ JudgeNewClient
    \/ JudgeFinish

Spec == Init /\ [][Next]_vars

\* a session call starts or returns, a goroutine acquires its client, or Execute moves on
ControlStep ==
    \/ \E r \in Roles : SessionOpen(r) \/ StreamEnd(r) \/ StreamCut(r) \/ ChatReturn(r)
    \/ \E r \in Phase1Roles : TaskNewClient(r)
    \/ Join \/ JudgeStart \/ JudgeNewClient

\* StreamChunk(r), by what it does to the number of chunks delivered
StreamChunkStep(r) ==
    /\ tpc[r] = "streaming"
    /\ delivered[r] < Len(gen[r])
    /\ delivered' = [delivered EXCEPT ![r] = @ + 1]

\* Phase1Finish(r), by what it does to the goroutine's position
Phase1FinishStep(r) ==
    /\ r \in Phase1Roles
    /\ tpc[r] = "ret"
    /\ tpc' = [tpc EXCEPT ![r] = "done"]

\* JudgeFinish, by what it does to Execute's position
JudgeFinishStep ==
    /\ pc = "judge"
    /\ tpc["Judge"] = "ret"
    /\ pc' = "returned"

\* a goroutine that can run is scheduled, and a session call in progress goes on: it delivers
\* its next chunk or returns
Fairness ==
    /\ WF_vars(ControlStep)
    /\ \A r \in Roles : WF_delivered(StreamChunkStep(r))
    /\ \A r \in Phase1Roles : WF_tpc(Phase1FinishStep(r))
    /\ WF_pc(JudgeFinishStep)

\* two providers, one reporting a failed body read and one not
InitLive == InitWith({"deepseek", "gemini"}, {"split"})

\* the program under fair scheduling, with session calls that return
SpecLive == InitLive /\ [][Next]_vars /\ Fairness

\* the same program on generations that repeat or omit the marker
SpecText == InitText /\ [][Next]_vars

----------------------------------------------------------------------------
(* Execute run by the CLI runner's runStreaming *)

\* the executor's variables other than its configuration
coreVars == <<pc, ctxCancelled, wg, tpc, delivered, sess, parser, roleErr, result, events,
              judgeStarts, judgeMsgs, saves, ret, cancelAt, doneOrder, saved, acc>>

\* runStreaming up to its call of Execute: the flags, the first status line (drawn without mu,
\* before any callback exists), and SetStream with the three callbacks
RunStreaming ==
    /\ cli.phase = "idle"
    /\ pc = "init"
    /\ cli' = [UpdateStatus(IdleCLI, FALSE) EXCEPT !.phase = "running"]
    /\ stream' = TRUE
    /\ onRole' = [r \in Roles |-> TRUE]
    /\ UNCHANGED <<coreVars, unitVars, onJudgeStart, provider, gen>>

\* result, err := r.executor.Execute(ctx, material)
RunnerExecute == cli.phase = "running" /\ Execute

\* the spinner goroutine redraws the status line on a tick of its ticker
SpinnerTick ==
    /\ cli.spinning > 0
    /\ cli.ticks < MaxTicks
    /\ cli' = [cli EXCEPT !.ticks = @ + 1]
    /\ UNCHANGED <<coreVars, cfgVars, unitVars>>

\* runStreaming after Execute returned: clear the status line, print the error or the summary
RunStreamingReturn ==
    /\ cli.phase = "running"
    /\ pc = "returned"
    /\ cli' = [cli EXCEPT !.phase = "returned", !.err = ret.err]
    /\ UNCHANGED <<coreVars, cfgVars, unitVars>>

\* NewRunner(cfg, true), with two providers for the roles
InitRunner == InitWith({"deepseek", "gemini"}, {"split"})

\* with the three callbacks installed every role takes the streaming branch, so no Chat call is made
NextRunner ==
    \/ RunStreaming
    \/ RunnerExecute
    \/ Cancel
    \/ \E r \in Roles : TaskNewClient(r)
    \/ \E r \in Roles : SessionOpen(r)
    \/ \E r \in Roles : StreamChunk(r)
    \/ \E r \in Roles : StreamEnd(r)
    \/ \E r \in Roles : StreamCut(r)
    \/ \E r \in Roles : Phase1Finish(r)
    \/ Join
    \/ JudgeStart
    \/ JudgeNewClient
    \/ JudgeFinish
    \/ SpinnerTick
    \/ RunStreamingReturn

\* Runner.Run in streaming mode
SpecRunner == InitRunner /\ [][NextRunner]_vars

----------------------------------------------------------------------------
(* A parser on its own *)

\* the executor's variables, which a unit driven on its own leaves alone
execVars == <<pc, stream, onRole, onJudgeStart, provider, gen, ctxCancelled, wg, tpc, delivered,
              sess, parser, roleErr, result, events, judgeStarts, judgeMsgs, saves, ret,
              cancelAt, doneOrder, saved, acc, cli>>

\* the most pieces a text fed to the parser is made of
MaxPieces == 4

\* the most empty chunks fed to one parser
MaxEmpty == 1

\* what the texts are made of: the one-liner heading, the marker, whitespace, a letter, and the
\* first character of a heading on its own
Pieces == {OneLinerToken, MarkerOf("Pro"), <<WS>>, <<"a">>, <<"#">>}

Texts == {Concat(ps) : ps \in UNION {[1..n -> Pieces] : n \in 0..MaxPieces}}

\* parser := NewStreamParser(marker), and the text the caller is going to feed
InitParser ==
    /\ InitExecutor({"deepseek"}, {"split"})
    /\ sse = IdleSSE
    /\ conf = IdleConf
    /\ inp = IdleInput
    /\ feed \in {NewFeed(MarkerOf("Pro"), t) : t \in Texts}

\* the text fed so far
Fed == SubSeq(feed.text, 1, feed.pos)

\* parser.Feed(chunk) with the next n characters of the text as the chunk
ParserFeed(n) ==
    LET chunk == SubSeq(feed.text, feed.pos + 1, feed.pos + n)
    IN  /\ feed.pos + n <= Len(feed.text)
        /\ n = 0 => feed.empties < MaxEmpty
        /\ feed' = [feed EXCEPT
                       !.p = FeedState(@, chunk),
                       !.pos = @ + n,
                       !.empties = IF n = 0 THEN @ + 1 ELSE @,
                       !.founds = IF FeedFound(feed.p, chunk) THEN @ + 1 ELSE @,
                       !.foundPos = IF FeedFound(feed.p, chunk) THEN feed.pos + n ELSE @,
                       !.foundChunk = IF FeedFound(feed.p, chunk) THEN chunk ELSE @,
                       !.last = [oneLiner |-> FeedOneLiner(feed.p, chunk),
                                 found |-> FeedFound(feed.p, chunk)]]
        /\ UNCHANGED <<execVars, sse, conf, inp>>

\* parser.Finalize(), called once
ParserFinalize ==
    /\ ~feed.p.finalized
    /\ feed' = [feed EXCEPT !.p = Finalize(@), !.finalPos = feed.pos]
    /\ UNCHANGED <<execVars, sse, conf, inp>>

NextParser ==
    \/ \E n \in 0..(MaxPieces * 2) : ParserFeed(n)
    \/ ParserFinalize

SpecParser == InitParser /\ [][NextParser]_vars

----------------------------------------------------------------------------
(* A stream reader on its own *)

\* the most lines a response body is made of
MaxLines == 3

\* the lines of a response body: one without the "data: " prefix; "data: [DONE]"; a data line
\* that is not JSON; a data line with no choices; a line longer than the scanner's buffer; and
\* data lines with a content, which may be empty
SSELines ==
    {[kind |-> k, content |-> <<>>] : k \in {"other", "done", "badjson", "nochoices", "toolong"}}
        \cup {[kind |-> "data", content |-> c] : c \in {<<>>, <<"a">>, <<"b">>}}

\* handleStream(body, onChunk) about to read the body
NewSSE(lines, onChunk) == [IdleSSE EXCEPT !.lines = lines, !.onChunk = onChunk]

InitSSE ==
    /\ InitExecutor({"deepseek"}, {"split"})
    /\ feed = IdleFeed
    /\ conf = IdleConf
    /\ inp = IdleInput
    /\ sse \in {NewSSE(ls, cb) : ls \in UNION {[1..n -> SSELines] : n \in 0..MaxLines},
                                cb \in BOOLEAN}

\* a loop body that goes on reading after [DONE]
HandleLineNoBreak(st, line) ==
    CASE line.kind = "toolong" -> [st EXCEPT !.stopped = TRUE]
      [] line.kind = "data" ->
            [st EXCEPT !.fullContent = @ \o line.content,
                       !.chunks = IF st.onChunk THEN Append(@, line.content) ELSE @]
      [] OTHER -> st

\* a loop body that collects the content only when there is a callback
HandleLineWriteInCallback(st, line) ==
    CASE line.kind \in {"done", "toolong"} -> [st EXCEPT !.stopped = TRUE]
      [] line.kind = "data" ->
            IF st.onChunk
            THEN [st EXCEPT !.fullContent = @ \o line.content, !.chunks = Append(@, line.content)]
            ELSE st
      [] OTHER -> st

\* one pass of the loop: scanner.Scan fails on a line too long for its buffer; a line without
\* the prefix, not JSON or without choices is skipped; [DONE] breaks; a content is written to
\* fullContent and passed to onChunk when there is one
HandleLine(st, line) ==
    CASE line.kind \in {"done", "toolong"} -> [st EXCEPT !.stopped = TRUE]
      [] line.kind = "data" ->
            [st EXCEPT !.fullContent = @ \o line.content,
                       !.chunks = IF st.onChunk THEN Append(@, line.content) ELSE @]
      [] OTHER -> st

\* the loop reads the next line
SSELine ==
    /\ ~sse.stopped /\ ~sse.returned
    /\ sse.pos < Len(sse.lines)
    /\ sse' = [HandleLine(sse, sse.lines[sse.pos + 1]) EXCEPT !.pos = sse.pos + 1]
    /\ UNCHANGED <<execVars, feed, conf, inp>>

\* the loop is over: return fullContent.String(), nil
SSEReturn ==
    /\ ~sse.returned
    /\ sse.stopped \/ sse.pos = Len(sse.lines)
    /\ sse' = [sse EXCEPT !.returned = TRUE, !.text = sse.fullContent, !.err = "nil"]
    /\ UNCHANGED <<execVars, feed, conf, inp>>

NextSSE ==
    \/ SSELine
    \/ SSEReturn

SpecSSE == InitSSE /\ [][NextSSE]_vars

----------------------------------------------------------------------------
(* Options.ApplyToConfig on its own *)

\* llm.ParseProvider: the provider of a recognised name, an error for any other string
ParseProvider(name) ==
    IF name \in Providers THEN [ok |-> TRUE, p |-> name] ELSE [ok |-> FALSE, p |-> ""]

\* config.GetDefaultModel: the default model of a provider
GetDefaultModel(p) ==
    CASE p = "deepseek" -> "deepseek-chat"
      [] p = "gemini" -> "gemini-2.0-flash"
      [] OTHER -> "dashscope-default"

\* a provider switch that brings the provider's own temperature and token limit with it
ApplyRoleWithProviderDefaults(o, rc) ==
    LET parsed == ParseProvider(o.Provider)
        rc1 == IF parsed.ok
               THEN [Provider |-> parsed.p,
                     Model |-> IF o.Model = "" THEN GetDefaultModel(parsed.p) ELSE rc.Model,
                     Temperature |-> "0.7", MaxTokens |-> "2048"]
               ELSE rc
    IN  IF o.Model # "" THEN [rc1 EXCEPT !.Model = o.Model] ELSE rc1

\* ApplyToConfig for one role: the provider when it parses, with its default model when no
\* model is given, then the model when one is given
ApplyRole(o, rc) ==
    LET parsed == ParseProvider(o.Provider)
        rc1 == IF parsed.ok
               THEN [rc EXCEPT !.Provider = parsed.p,
                               !.Model = IF o.Model = "" THEN GetDefaultModel(parsed.p) ELSE @]
               ELSE rc
    IN  IF o.Model # "" THEN [rc1 EXCEPT !.Model = o.Model] ELSE rc1

\* the provider names given as options: none, two recognised, one unrecognised
OptionProviders == {"", "gemini", "dashscope", "openai"}

\* the model names given as options: none, or one
OptionModels == {"", "my-model"}

\* the combinations offered in interactive mode that are told apart: all Gemini, Gemini judging
\* DeepSeek against Qwen, all Qwen
ModelCombinations ==
    {[Judge |-> "gemini", Pro |-> "gemini", Con |-> "gemini"],
     [Judge |-> "gemini", Pro |-> "deepseek", Con |-> "dashscope"],
     [Judge |-> "dashscope", Pro |-> "dashscope", Con |-> "dashscope"]}

\* ParseFlags, then cfg := config.New()
InitConfig ==
    /\ InitExecutor({"deepseek"}, {"split"})
    /\ feed = IdleFeed
    /\ sse = IdleSSE
    /\ inp = IdleInput
    /\ \E o \in [Roles -> [Provider : OptionProviders, Model : OptionModels]] :
          conf = [IdleConf EXCEPT !.opts = o]

\* opts.ApplyToConfig(cfg)
ApplyToConfig ==
    /\ conf.applied < 2
    /\ conf' = [conf EXCEPT
                   !.before = conf.cfg,
                   !.cfg = [r \in Roles |-> ApplyRole(conf.opts[r], conf.cfg[r])],
                   !.first = IF conf.applied = 0
                             THEN [r \in Roles |-> ApplyRole(conf.opts[r], conf.cfg[r])]
                             ELSE @,
                   !.applied = @ + 1]
    /\ UNCHANGED <<execVars, feed, sse, inp>>

\* interactive mode: the providers of the selected combination replace those of the options
SelectModelCombination ==
    /\ conf.applied = 1
    /\ ~conf.selected
    /\ \E comb \in ModelCombinations :
          conf' = [conf EXCEPT
                      !.opts = [r \in Roles |-> [@[r] EXCEPT !.Provider = comb[r]]],
                      !.selected = TRUE]
    /\ UNCHANGED <<execVars, feed, sse, inp>>

NextConfig == ApplyToConfig \/ SelectModelCombination

SpecConfig == InitConfig /\ [][NextConfig]_vars

----------------------------------------------------------------------------
(* InputReader.readMultiLineInput on its own *)

\* the most lines on stdin
MaxInput == 5

\* the line separator of strings.Join(lines, "\n")
NL == "\n"

\* the lines typed: an empty line, a line of text, a line of whitespace only
InputLines == {<<>>, <<"a">>, <<WS>>}

\* a loop body that counts every empty line, consecutive or not
ReadLineNoReset(st, line) ==
    IF line = <<>>
    THEN IF st.emptyCount + 1 >= 2
         THEN [st EXCEPT !.emptyCount = @ + 1, !.stopped = TRUE]
         ELSE [st EXCEPT !.emptyCount = @ + 1, !.lines = Append(@, line)]
    ELSE [st EXCEPT !.lines = Append(@, line)]

\* the body of the scan loop for one line: count consecutive empty lines, break at the second,
\* append the line otherwise
ReadLine(st, line) ==
    IF line = <<>>
    THEN IF st.emptyCount + 1 >= 2
         THEN [st EXCEPT !.emptyCount = @ + 1, !.stopped = TRUE]
         ELSE [st EXCEPT !.emptyCount = @ + 1, !.lines = Append(@, line)]
    ELSE [st EXCEPT !.emptyCount = 0, !.lines = Append(@, line)]

RECURSIVE TrimTrailingEmpty(_)
\* for len(lines) > 0 && lines[len(lines)-1] == "" { lines = lines[:len(lines)-1] }
TrimTrailingEmpty(ls) ==
    IF ls # <<>> /\ ls[Len(ls)] = <<>> THEN TrimTrailingEmpty(SubSeq(ls, 1, Len(ls) - 1)) ELSE ls

RECURSIVE JoinLines(_)
\* strings.Join(lines, "\n")
JoinLines(ls) ==
    IF ls = <<>> THEN <<>>
    ELSE IF Len(ls) = 1 THEN ls[1]
    ELSE ls[1] \o <<NL>> \o JoinLines(Tail(ls))

\* the reader about to read the lines typed on stdin
InitInput ==
    /\ InitExecutor({"deepseek"}, {"split"})
    /\ feed = IdleFeed
    /\ sse = IdleSSE
    /\ conf = IdleConf
    /\ \E ls \in UNION {[1..n -> InputLines] : n \in 0..MaxInput} :
          inp = [IdleInput EXCEPT !.reading = TRUE, !.stdin = ls]

\* one turn of the loop: scanner.Scan() returned true
ScanLine ==
    /\ inp.reading /\ ~inp.stopped /\ ~inp.returned
    /\ inp.pos < Len(inp.stdin)
    /\ inp' = [ReadLine(inp, inp.stdin[inp.pos + 1]) EXCEPT !.pos = @ + 1]
    /\ UNCHANGED <<execVars, feed, sse, conf>>

\* scanner.Scan() returned false because reading stdin failed
ScanFails ==
    /\ inp.reading /\ ~inp.stopped /\ ~inp.returned
    /\ inp' = [inp EXCEPT !.stopped = TRUE, !.failed = TRUE]
    /\ UNCHANGED <<execVars, feed, sse, conf>>

\* after the loop: the scanner's error, or the lines without trailing empty ones, joined
ReadReturn ==
    /\ inp.reading /\ ~inp.returned
    /\ inp.stopped \/ inp.pos = Len(inp.stdin)
    /\ inp' = IF inp.failed
               THEN [inp EXCEPT !.returned = TRUE, !.text = <<>>, !.err = "read"]
               ELSE [inp EXCEPT !.returned = TRUE, !.lines = TrimTrailingEmpty(@),
                                !.text = JoinLines(TrimTrailingEmpty(inp.lines)), !.err = "nil"]
    /\ UNCHANGED <<execVars, feed, sse, conf>>

NextInput == ScanLine \/ ScanFails \/ ReadReturn

SpecInput == InitInput /\ [][NextInput]_vars

----------------------------------------------------------------------------
(* Vocabulary of the properties *)

\* the role failed: its client could not be created, or its session call returned an error
Failed(r) == sess[r].client = "fail" \/ IsErrCause(sess[r].ret)

\* the role's task has terminated
Terminated(r) == tpc[r] = "done"

\* some step of the Judge phase has happened
JudgePhaseStep ==
    \/ pc \in {"gate", "judgeNew", "judge"}
    \/ judgeStarts > 0
    \/ sess["Judge"] # NewSession
    \/ judgeMsgs.built
    \/ tpc["Judge"] # "idle"
    \/ events["Judge"] # <<>>

ReturnedError == ret.returned /\ ~ret.hasResult /\ ret.err # NoErr

ReturnedResult == ret.returned /\ ret.hasResult /\ ret.err = NoErr

----------------------------------------------------------------------------
(* C1 *)

\* C1: hard join. Under every interleaving of the Pro and Con tasks, no step of the Judge
\* phase (phase-transition notification, Judge client, Judge messages, Judge session call,
\* Judge event) happens before both the Pro task and the Con task have terminated.
C1_HardJoin == JudgePhaseStep => \A r \in Phase1Roles : Terminated(r)

\* the Judge's session has been called, after Con finished before Pro
C1_Witness ==
    /\ sess["Judge"].calls = 1
    /\ judgeMsgs.built
    /\ doneOrder = <<"Con", "Pro">>

----------------------------------------------------------------------------
(* C2 *)

\* C2: a Phase-1 role's failure never cancels or shortens its sibling. Execute returns only
\* after both tasks have terminated, and the step in which a role's error is recorded leaves
\* the sibling's task, the shared context and Execute's return value untouched: the error is
\* held until the join.
C2_SiblingRunsToCompletion ==
    /\ [](ret.returned => \A r \in Phase1Roles : Terminated(r))
    /\ [][\A r \in Phase1Roles : \A o \in Phase1Roles \ {r} :
            (roleErr'[r] # NoErr /\ roleErr[r] = NoErr) =>
               /\ tpc'[o] = tpc[o] /\ sess'[o] = sess[o] /\ parser'[o] = parser[o]
               /\ delivered'[o] = delivered[o] /\ events'[o] = events[o]
               /\ ctxCancelled' = ctxCancelled
               /\ ret' = ret /\ pc' = pc]_vars

\* Pro failed first, Con then streamed its whole generation, and Execute returned Pro's error
C2_Witness ==
    /\ ReturnedError
    /\ Failed("Pro")
    /\ doneOrder = <<"Pro", "Con">>
    /\ sess["Con"].ret = "ok" /\ sess["Con"].cut = "no"
    /\ Streaming("Con") /\ delivered["Con"] = Len(gen["Con"])
    /\ result.ConFullBody # <<>>
    /\ ~ctxCancelled

----------------------------------------------------------------------------
(* C3 *)

\* C3: if either Phase-1 role failed, Phase 2 never starts: Execute stays at the join until
\* it returns an error, the phase-transition notification is not invoked, no Judge session
\* is acquired or called, and no Judge event is emitted.
C3_FailureStopsBeforePhase2 ==
    (\E r \in Phase1Roles : Failed(r)) =>
        /\ ~JudgePhaseStep
        /\ pc \in {"wait", "returned"}
        /\ ret.returned => ReturnedError

\* Con's blocking call failed while Pro succeeded, with a phase-transition callback installed
C3_Witness ==
    /\ ReturnedError
    /\ Failed("Con") /\ ~Failed("Pro")
    /\ ~Streaming("Con")
    /\ sess["Pro"].ret = "ok" /\ result.ProFullBody # <<>>
    /\ onJudgeStart

----------------------------------------------------------------------------
(* C4 *)

\* C4: a Phase-2 error aborts the run. Whenever the Judge session call returned an error,
\* in streaming mode as well as in non-streaming mode, Execute returns a non-nil error and
\* no Result.
C4_JudgeErrorAborts == (ret.returned /\ IsErrCause(sess["Judge"].ret)) => ReturnedError

----------------------------------------------------------------------------
(* C5 *)

\* C5: error and result are mutually exclusive outcomes of Execute, and a Result is returned
\* only when all three roles' sessions completed without error.
C5_ResultXorError ==
    ret.returned =>
        /\ ReturnedResult \/ ReturnedError
        /\ ReturnedResult => \A r \in Roles : sess[r].ret = "ok"

----------------------------------------------------------------------------
(* C6 *)

\* C6: in every run that reaches Phase 2, the Pro and Con arguments placed in the Judge's
\* messages are each side's complete full body, for every way a Phase-1 stream can end.
C6_JudgeGetsCompleteBodies ==
    judgeMsgs.built =>
        /\ judgeMsgs.pro = CompleteBody("Pro")
        /\ judgeMsgs.con = CompleteBody("Con")

----------------------------------------------------------------------------
(* C7 *)

\* the cancellation landed on the role's session: on its request, or on the read of its body
CancelLandedOn(r) == sess[r].ret = "canceled" \/ sess[r].cut = "canceled"

\* C7: when the cancellation lands on a Phase-1 session, before the response or in the
\* middle of the streamed body, Execute never proceeds to Phase 2 and returns an error,
\* which is the cancellation unless a role failed for another reason.
C7_CancelInPhase1 ==
    (\E r \in Phase1Roles : CancelLandedOn(r)) =>
        /\ ~JudgePhaseStep
        /\ ret.returned =>
              /\ ReturnedError
              /\ \/ ret.err.cause = "canceled"
                 \/ \E r \in Phase1Roles : Failed(r) /\ sess[r].ret # "canceled"

----------------------------------------------------------------------------
(* C8 *)

\* C8: if the context is cancelled before Phase 2 starts (during Phase 1, or after the join
\* and before the Judge's request is issued), no Judge message is sent and, when the run
\* gets as far as the Judge's session call, Execute returns the cancellation error and no
\* Result, in streaming and in non-streaming mode.
C8_CancelBeforePhase2 ==
    cancelAt \in {"phase1", "beforeJudge"} =>
        /\ ~sess["Judge"].sent
        /\ (ret.returned /\ sess["Judge"].client = "ok") =>
              ReturnedError /\ ret.err.cause = "canceled"

----------------------------------------------------------------------------
(* C9 *)

\* the role whose session error Execute has to report: the first failing one in the order
\* Pro, Con, Judge
Reports(r) ==
    /\ IsErrCause(sess[r].ret)
    /\ r = "Con" => ~Failed("Pro")

\* C9: every transport error raised by a role's session call is wrapped with that role's
\* name in the error Execute returns, for Pro, Con and Judge, in streaming and in
\* non-streaming mode.
C9_ErrorWrappedWithRole ==
    ret.returned =>
        \A r \in Roles : Reports(r) => ret.err = Errorf(RoleName(r), sess[r].ret)

----------------------------------------------------------------------------
(* C10 *)

\* C10: when both Pro and Con fail in the same run, the error Execute returns is Pro's,
\* whichever task failed first.
C10_ProErrorFirst ==
    (ret.returned /\ Failed("Pro") /\ Failed("Con")) => ret.err = roleErr["Pro"]

\* both failed with different errors, Con before Pro
C10_Witness ==
    /\ ret.returned
    /\ Failed("Pro") /\ Failed("Con")
    /\ roleErr["Pro"] # roleErr["Con"]
    /\ roleErr["Con"] # NoErr
    /\ doneOrder = <<"Con", "Pro">>

----------------------------------------------------------------------------
(* Events *)

\* the number of role-done events ("", done=true) the role's callback received
DoneEvents(r) == Cardinality({i \in 1..Len(events[r]) : events[r][i].done})

\* the number of headline-available events (text, done=false) the role's callback received
HeadlineEvents(r) == Cardinality({i \in 1..Len(events[r]) : ~events[r][i].done})

\* the role's work has ended: its goroutine terminated, or Execute returned after it had
\* entered the Judge phase
WorkEnded(r) ==
    IF r = "Judge" THEN ret.returned /\ sess["Judge"].client # "none" ELSE Terminated(r)

----------------------------------------------------------------------------
(* C11 *)

\* C11: with a role's callback installed, a role-done event is emitted exactly once whenever
\* that role's work ends, on every way it can end, the failure to create the client included.
C11_DoneEventOnEveryEnd ==
    \A r \in Roles :
        /\ DoneEvents(r) <= 1
        /\ (onRole[r] /\ WorkEnded(r)) => DoneEvents(r) = 1

----------------------------------------------------------------------------
(* C12 *)

\* the marker occurs more than once in the text
MarkerTwice(t, m) == Index(t, m) # 0 /\ Contains(SubSeq(t, Index(t, m) + 1, Len(t)), m)

\* C12: at most one headline event per role and run, whatever the stream delivers (the marker
\* repeated included), and it is emitted by the chunk delivery at which the parser first reports
\* the headline, carrying that headline.
C12_OneHeadlineEvent ==
    /\ [](\A r \in Roles :
             /\ HeadlineEvents(r) <= 1
             /\ (HeadlineEvents(r) = 1) = (Streaming(r) /\ parser[r].headlineFound))
    /\ [][\A r \in Roles :
             /\ HeadlineEvents(r)' # HeadlineEvents(r) =>
                   /\ delivered'[r] = delivered[r] + 1
                   /\ ~parser[r].headlineFound /\ parser'[r].headlineFound
                   /\ events'[r] = Append(events[r], [text |-> parser'[r].oneLiner, done |-> FALSE])
             /\ (Streaming(r) /\ ~parser[r].headlineFound /\ parser'[r].headlineFound) =>
                   HeadlineEvents(r)' = HeadlineEvents(r) + 1]_vars

\* a stream with the marker twice was delivered whole and raised one headline event
C12_Witness ==
    \E r \in Roles :
        /\ MarkerTwice(Concat(gen[r]), MarkerOf(r))
        /\ Streaming(r)
        /\ delivered[r] = Len(gen[r])
        /\ HeadlineEvents(r) = 1

----------------------------------------------------------------------------
(* C13 *)

\* Execute has passed the two error checks that follow the join
PastJoin == pc \in {"gate", "judgeNew", "judge"} \/ sess["Judge"].client # "none"

\* C13: with the phase-transition callback installed and both Phase-1 roles successful, the
\* callback is invoked exactly once, after the join and before the Judge's client is acquired
\* or the Judge's messages are built; without the callback, or on a Phase-1 error, never.
C13_JudgeStartOnce ==
    /\ [](/\ judgeStarts <= 1
          /\ judgeStarts = 1 =>
                /\ onJudgeStart
                /\ wg = 0
                /\ \A r \in Phase1Roles : Terminated(r) /\ roleErr[r] = NoErr
          /\ (onJudgeStart /\ (sess["Judge"].client # "none" \/ judgeMsgs.built \/ pc = "judgeNew"))
                => judgeStarts = 1
          /\ (PastJoin /\ judgeStarts = 0) => (~onJudgeStart \/ pc = "gate"))
    /\ [][judgeStarts' # judgeStarts =>
             /\ judgeStarts' = judgeStarts + 1
             /\ pc = "gate"
             /\ sess'["Judge"].client = "none"
             /\ ~judgeMsgs'.built]_vars

\* the callback was invoked and the Judge's client and messages exist
C13_Witness ==
    /\ onJudgeStart
    /\ judgeStarts = 1
    /\ sess["Judge"].client = "ok"
    /\ judgeMsgs.built

----------------------------------------------------------------------------
(* C14 *)

\* Phase 2 completed: the Judge's session call returned, and returned no error
Phase2Completed == sess["Judge"].ret # "none" /\ ~IsErrCause(sess["Judge"].ret)

\* what holds of persistence whether or not Phase 2 completed: it is attempted at most once,
\* after the Judge's session call returned, by the step that returns the result; ReportPath is
\* non-empty exactly when the report was written
SaveOnceAtReturn ==
    /\ [](/\ saves <= 1
          /\ (saves = 1) = (saved # "none")
          /\ saves = 1 => (sess["Judge"].ret # "none" /\ tpc["Judge"] = "done" /\ ReturnedResult)
          /\ (result.ReportPath # "") = (saved = "ok")
          /\ ReturnedResult => saves = 1)
    /\ [][saves' # saves =>
             /\ saves' = saves + 1
             /\ pc = "judge" /\ tpc["Judge"] = "ret"
             /\ pc' = "returned"]_vars

\* the report could not be written and Execute returned the result, with an empty ReportPath
SaveFailedResultReturned == saved = "fail" /\ ReturnedResult /\ result.ReportPath = ""

\* C14: persistence is attempted at most once and only after Phase 2 completed; its failure
\* never fails the run; ReportPath is non-empty exactly when persistence succeeded.
C14_SaveOnceAfterPhase2 ==
    /\ saves <= 1
    /\ saves = 1 => Phase2Completed
    /\ saved = "fail" => ReturnedResult
    /\ (result.ReportPath # "") = (saved = "ok")

----------------------------------------------------------------------------
(* Vocabulary of the parser's properties *)

\* the text the parser was fed before Finalize
FedToParser == SubSeq(feed.text, 1, IF feed.finalPos = -1 THEN feed.pos ELSE feed.finalPos)

\* the text that follows the first marker
AfterMarker(t, m) == SubSeq(t, Index(t, m) + Len(m), Len(t))

\* the text contains the marker exactly once
MarkerOnce(t, m) == Contains(t, m) /\ ~MarkerTwice(t, m)

\* the parser after the whole text was fed as one chunk and finalized
SingleChunk(t, m) == Finalize(FeedState(NewStreamParser(m), t))

\* the whole text was fed before Finalize, and Finalize was called
FedWholeAndFinalized == feed.p.finalized /\ feed.finalPos = Len(feed.text)

\* no whitespace at either end
Trimmed(s) == s = <<>> \/ (Head(s) # WS /\ s[Len(s)] # WS)

\* the state of the parser's state machine
StateOf(p) ==
    IF p.finalized THEN "FINALIZED" ELSE IF p.headlineFound THEN "SPLIT" ELSE "ACCUMULATING"

----------------------------------------------------------------------------
(* C15 *)

\* C15: for a text with the marker exactly once, however it is cut into chunks, Feed reports
\* justFound on exactly one call, the first after which the fed text contains the marker, and
\* headline and full body after Finalize are those of feeding the text as a single chunk.
C15_ChunkingInvariance ==
    MarkerOnce(feed.text, feed.p.marker) =>
        /\ feed.founds = (IF Contains(FedToParser, feed.p.marker) THEN 1 ELSE 0)
        /\ feed.founds = 1 =>
              /\ Contains(SubSeq(feed.text, 1, feed.foundPos), feed.p.marker)
              /\ ~Contains(SubSeq(feed.text, 1, feed.foundPos - Len(feed.foundChunk)), feed.p.marker)
              /\ feed.p.oneLiner = SingleChunk(feed.text, feed.p.marker).oneLiner
        /\ feed.last.found => feed.last.oneLiner = SingleChunk(feed.text, feed.p.marker).oneLiner
        /\ FedWholeAndFinalized =>
              /\ feed.p.oneLiner = SingleChunk(feed.text, feed.p.marker).oneLiner
              /\ feed.p.fullBody = SingleChunk(feed.text, feed.p.marker).fullBody

\* a text with a headline, the marker once and a body was fed with an empty chunk and a cut
\* inside the marker, and finalized
C15_Witness ==
    /\ MarkerOnce(feed.text, feed.p.marker)
    /\ FedWholeAndFinalized
    /\ feed.empties = 1
    /\ feed.founds = 1
    /\ feed.foundPos - Len(feed.foundChunk) = Index(feed.text, feed.p.marker)
    /\ feed.p.oneLiner # <<>>
    /\ feed.p.fullBody # <<>>

----------------------------------------------------------------------------
(* C16 *)

\* C16: when the text fed never contains the marker, no Feed reports justFound and Finalize
\* yields an empty headline and, as the full body, the entire text fed.
C16_Fallback ==
    ~Contains(FedToParser, feed.p.marker) =>
        /\ feed.founds = 0
        /\ ~feed.p.headlineFound
        /\ feed.p.finalized => (feed.p.oneLiner = <<>> /\ feed.p.fullBody = FedToParser)

\* a text without the marker, with whitespace at its start and the marker's first character
\* in it, was fed with an empty chunk among the chunks and finalized
C16_Witness ==
    /\ FedWholeAndFinalized
    /\ ~Contains(feed.text, feed.p.marker)
    /\ Len(feed.text) >= 3
    /\ Head(feed.text) = WS
    /\ Contains(feed.text, <<"#">>)
    /\ feed.empties = 1
    /\ feed.p.fullBody = feed.text

----------------------------------------------------------------------------
(* C17 *)

----------------------------------------------------------------------------
(* C18 *)

\* what holds of every Feed call whatever Finalize does to the body: headlineFound turns true
\* at most once and never back, the headline never changes once set, and a Feed after the
\* marker was found returns ("", false)
FoundOnceHeadlineKept ==
    /\ [](feed.founds <= 1 /\ (feed.founds = 1) = feed.p.headlineFound)
    /\ [][/\ feed.p.headlineFound => (feed'.p.headlineFound /\ feed'.p.oneLiner = feed.p.oneLiner)
          /\ (feed.p.headlineFound /\ feed'.p.finalized = feed.p.finalized) =>
                (~feed'.last.found /\ feed'.last.oneLiner = <<>>)]_vars

\* C18 as stated: the final full body is the text following the marker.
C18_FinalBodyIsTextAfterMarker ==
    (feed.p.finalized /\ feed.p.headlineFound) =>
        feed.p.fullBody = AfterMarker(FedToParser, feed.p.marker)

\* C18: headlineFound turns true at most once and never back; the headline never changes once
\* set; a Feed after the marker was found and before Finalize returns ("", false) and appends
\* its chunk to the full body, which is the text following the marker until Finalize, and that
\* text trimmed of surrounding whitespace after it.
C18_Monotonic ==
    /\ FoundOnceHeadlineKept
    /\ []((feed.p.headlineFound /\ ~feed.p.finalized) =>
             feed.p.fullBody = AfterMarker(FedToParser, feed.p.marker))
    /\ []((feed.p.headlineFound /\ feed.p.finalized) =>
             feed.p.fullBody = TrimSpace(AfterMarker(FedToParser, feed.p.marker)))
    /\ [][(feed.p.headlineFound /\ ~feed.p.finalized /\ ~feed'.p.finalized) =>
             feed'.p.fullBody = feed.p.fullBody \o SubSeq(feed.text, feed.pos + 1, feed'.pos)]_vars

\* chunks were fed after the marker was found, and Finalize trimmed the body they made
C18_Witness ==
    /\ feed.p.finalized
    /\ feed.p.headlineFound
    /\ feed.foundPos < feed.finalPos
    /\ feed.p.fullBody # <<>>
    /\ feed.p.fullBody # AfterMarker(FedToParser, feed.p.marker)

----------------------------------------------------------------------------
(* C19 *)

\* C19: the parser's state moves only ACCUMULATING -> SPLIT -> FINALIZED or ACCUMULATING ->
\* FINALIZED; FINALIZED is entered only by Finalize and never left; a Feed after Finalize
\* returns and leaves the finalized headline as it was.
C19_StateMachine ==
    /\ [](feed.finalPos # -1 <=> StateOf(feed.p) = "FINALIZED")
    /\ [][/\ <<StateOf(feed.p), StateOf(feed'.p)>> \in
                {<<"ACCUMULATING", "ACCUMULATING">>, <<"ACCUMULATING", "SPLIT">>,
                 <<"ACCUMULATING", "FINALIZED">>, <<"SPLIT", "SPLIT">>,
                 <<"SPLIT", "FINALIZED">>, <<"FINALIZED", "FINALIZED">>}
          /\ (StateOf(feed.p) # "FINALIZED" /\ StateOf(feed'.p) = "FINALIZED") =>
                (feed'.finalPos = feed.pos /\ feed'.pos = feed.pos /\ feed'.last = feed.last)
          /\ StateOf(feed.p) = "FINALIZED" =>
                (feed'.p.oneLiner = feed.p.oneLiner /\ ~feed'.last.found)]_vars

\* the marker arrived in a Feed made after Finalize, and the finalized headline is still empty
C19_Witness ==
    /\ feed.p.finalized
    /\ feed.pos > feed.finalPos
    /\ ~Contains(FedToParser, feed.p.marker)
    /\ Contains(Fed, feed.p.marker)
    /\ feed.p.oneLiner = <<>>

----------------------------------------------------------------------------
(* C20 *)

\* the contents of the accepted data lines, in order: the data lines with choices that come
\* before the first line that ends the reading
RECURSIVE AcceptedContents(_)
AcceptedContents(lines) ==
    IF lines = <<>> \/ Head(lines).kind \in {"done", "toolong"} THEN <<>>
    ELSE IF Head(lines).kind = "data"
         THEN <<Head(lines).content>> \o AcceptedContents(Tail(lines))
         ELSE AcceptedContents(Tail(lines))

\* C20: handleStream calls the chunk callback once per accepted data line, in the order of the
\* lines; the text it returns is the concatenation, in order, of exactly those chunks; and it
\* returns the same text when there is no callback.
C20_ChunksInOrder ==
    /\ sse.chunks = (IF sse.onChunk THEN AcceptedContents(SubSeq(sse.lines, 1, sse.pos)) ELSE <<>>)
    /\ sse.returned =>
          /\ sse.text = Concat(AcceptedContents(sse.lines))
          /\ sse.onChunk => sse.text = Concat(sse.chunks)

\* two different chunks went to the callback, a line was not accepted, and the text was returned
C20_Witness ==
    /\ sse.returned
    /\ sse.onChunk
    /\ Len(sse.chunks) = 2
    /\ sse.chunks[1] # sse.chunks[2]
    /\ Len(sse.lines) > 2
    /\ sse.text # <<>>

----------------------------------------------------------------------------
(* C21 *)

\* the lines the reader skips: no "data: " prefix, not JSON, no choices
SkippedKinds == {"other", "badjson", "nochoices"}

\* C21: the reader skips every line without the prefix, every data line that is not JSON and
\* every delta without choices, with no callback and no error; it stops at the first
\* "data: [DONE]" and delivers nothing from the lines after it.
C21_SkipAndStop ==
    /\ [](/\ \A i \in 1..(sse.pos - 1) : sse.lines[i].kind # "done"
          /\ (sse.pos > 0 /\ sse.lines[sse.pos].kind = "done") => sse.stopped
          /\ sse.returned => sse.err = "nil")
    /\ [][/\ sse'.lines = sse.lines
          /\ sse'.pos = sse.pos + 1 =>
                /\ sse.lines[sse'.pos].kind \in SkippedKinds =>
                      /\ sse'.chunks = sse.chunks
                      /\ sse'.fullContent = sse.fullContent
                      /\ ~sse'.stopped
                /\ sse.lines[sse'.pos].kind = "done" =>
                      /\ sse'.chunks = sse.chunks
                      /\ sse'.fullContent = sse.fullContent
          /\ sse.stopped =>
                /\ sse'.pos = sse.pos
                /\ sse'.chunks = sse.chunks
                /\ sse'.fullContent = sse.fullContent]_vars

\* a skipped line, then [DONE], then a data line with a content: nothing was delivered and the
\* reader returned no text and no error
C21_Witness ==
    /\ Len(sse.lines) = 3
    /\ sse.lines[1].kind \in SkippedKinds
    /\ sse.lines[2].kind = "done"
    /\ sse.lines[3] = [kind |-> "data", content |-> <<"a">>]
    /\ sse.onChunk
    /\ sse.returned
    /\ sse.chunks = <<>>
    /\ sse.text = <<>>
    /\ sse.err = "nil"

----------------------------------------------------------------------------
(* C22 *)

\* the role's streaming call has returned
StreamingCallReturned(r) == Streaming(r) /\ tpc[r] \in {"ret", "done"} /\ sess[r].calls > 0

\* C22: a streaming call whose request failed, a failure while the streamed body was being
\* read included, returns an error; the chunks delivered before the failure stay delivered.
C22_StreamFailureReported ==
    \A r \in Roles :
        (StreamingCallReturned(r) /\ sess[r].cut # "no") =>
            /\ IsErrCause(sess[r].ret)
            /\ parser[r].buffer = Concat(SubSeq(gen[r], 1, delivered[r]))

----------------------------------------------------------------------------
(* C23 *)

\* the goroutine each shared variable belongs to
Owner(f) ==
    CASE f \in {"ProOneLiner", "ProFullBody", "proErr"} -> "Pro"
      [] f \in {"ConOneLiner", "ConFullBody", "conErr"} -> "Con"
      [] OTHER -> "Main"

Phase1Fields == {"ProOneLiner", "ProFullBody", "ConOneLiner", "ConFullBody", "proErr", "conErr"}

JudgeFields == {"VerdictOneLiner", "VerdictFullBody", "ReportPath"}

FullBodyFields == {"ProFullBody", "ConFullBody", "VerdictFullBody"}

\* the places of the log where the variable is written
WritesOf(f) == {i \in 1..Len(acc) : acc[i].op = "w" /\ acc[i].field = f}

\* what the claim and the discipline have in common: one writer per variable, the Pro and Con
\* tasks never write the same variable, no Judge field is written before the join
OneWriterPerVariable ==
    /\ \A i \in 1..Len(acc) : acc[i].op = "w" => acc[i].task = Owner(acc[i].field)
    /\ \A i, j \in 1..Len(acc) :
          (acc[i].op = "w" /\ acc[j].op = "w" /\ acc[i].task = "Pro" /\ acc[j].task = "Con")
              => acc[i].field # acc[j].field
    /\ \A i \in 1..Len(acc) :
          (acc[i].op = "w" /\ acc[i].field \in JudgeFields) => acc[i].joined

\* C23 as stated: every variable is written exactly once, and no Phase-1 variable is read
\* before the join.
C23_WrittenOnceNotReadBeforeJoin ==
    /\ OneWriterPerVariable
    /\ \A i \in 1..Len(acc) : Cardinality(WritesOf(acc[i].field)) <= 1
    /\ \A i \in 1..Len(acc) :
          (acc[i].op = "r" /\ acc[i].field \in Phase1Fields) => acc[i].joined

\* C23: every variable is written by one task only, the Pro and Con tasks never write the same
\* variable, and no Judge field is written before the join.  A variable is written once, but
\* for a full body, which its owner reads back after writing it and writes a second time when
\* it finds it empty (the fallback).  Before the join a Phase-1 variable is read by nobody but
\* the task that owns it.
C23_OwnershipDiscipline ==
    /\ OneWriterPerVariable
    /\ \A i \in 1..Len(acc) :
          /\ Cardinality(WritesOf(acc[i].field)) <= (IF acc[i].field \in FullBodyFields THEN 2 ELSE 1)
    /\ \A i, j \in 1..Len(acc) :
          (i < j /\ acc[i].op = "w" /\ acc[j].op = "w" /\ acc[i].field = acc[j].field) =>
              /\ j = i + 2
              /\ acc[i + 1] = [acc[i] EXCEPT !.op = "r"]
    /\ \A i \in 1..Len(acc) :
          (acc[i].op = "r" /\ acc[i].field \in Phase1Fields /\ ~acc[i].joined) =>
              /\ acc[i].task = Owner(acc[i].field)
              /\ acc[i].field \in FullBodyFields
    /\ \A i \in 1..Len(acc) : (acc[i].op = "r" /\ acc[i].task = "Main") => acc[i].joined

\* Execute returned a result in a run in which the Pro task wrote its full body twice, and
\* both Phase-1 tasks stored an error variable or a field
C23_Witness ==
    /\ ReturnedResult
    /\ Cardinality(WritesOf("ProFullBody")) = 2
    /\ Cardinality(WritesOf("ConFullBody")) = 1
    /\ Cardinality(WritesOf("conErr")) = 1
    /\ Cardinality(WritesOf("ReportPath")) = 1

----------------------------------------------------------------------------
(* C24 *)

\* C24: in one run each role's session is acquired at most once and called at most once,
\* whatever errors occur; a call that returned is never made again.
C24_NoRetries ==
    /\ [](\A r \in Roles :
             /\ sess[r].acquired <= 1
             /\ sess[r].calls <= 1
             /\ sess[r].calls = 1 => sess[r].client = "ok")
    /\ [][\A r \in Roles :
             sess[r].ret # "none" => (sess'[r].calls = sess[r].calls /\ sess'[r].ret = sess[r].ret)]_vars

\* Execute returned after both Phase-1 calls had failed, each made once
C24_Witness ==
    /\ ret.returned
    /\ \A r \in Phase1Roles : IsErrCause(sess[r].ret) /\ sess[r].calls = 1 /\ sess[r].acquired = 1

----------------------------------------------------------------------------
(* C25 *)

\* the phase of the run
PhaseOf(at, r) ==
    IF r.returned THEN (IF r.hasResult THEN "DONE" ELSE "ABORTED")
    ELSE CASE at = "init" -> "INIT"
           [] at = "wait" -> "PARALLEL_RUNNING"
           [] at \in {"gate", "judgeNew"} -> "PARALLEL_JOINED"
           [] OTHER -> "SEQUENTIAL_RUNNING"

\* C25: the phase only moves forward through INIT, PARALLEL_RUNNING, PARALLEL_JOINED,
\* SEQUENTIAL_RUNNING, DONE; ABORTED is entered only from the three running phases; DONE and
\* ABORTED are never left, so no run reaches both.
C25_PhaseMovesForward ==
    /\ [](ret.returned <=> pc = "returned")
    /\ [][\/ PhaseOf(pc', ret') = PhaseOf(pc, ret)
          \/ <<PhaseOf(pc, ret), PhaseOf(pc', ret')>> \in
                {<<"INIT", "PARALLEL_RUNNING">>,
                 <<"PARALLEL_RUNNING", "PARALLEL_JOINED">>,
                 <<"PARALLEL_JOINED", "SEQUENTIAL_RUNNING">>,
                 <<"SEQUENTIAL_RUNNING", "DONE">>,
                 <<"PARALLEL_RUNNING", "ABORTED">>,
                 <<"PARALLEL_JOINED", "ABORTED">>,
                 <<"SEQUENTIAL_RUNNING", "ABORTED">>}]_vars

\* the run was aborted in the sequential phase: the Judge's blocking call returned an error
C25_Witness ==
    /\ PhaseOf(pc, ret) = "ABORTED"
    /\ IsErrCause(sess["Judge"].ret)
    /\ \A r \in Phase1Roles : roleErr[r] = NoErr

----------------------------------------------------------------------------
(* C26 *)

ResultOneLiner(res, r) ==
    CASE r = "Pro" -> res.ProOneLiner [] r = "Con" -> res.ConOneLiner [] OTHER -> res.VerdictOneLiner

ResultFullBody(res, r) ==
    CASE r = "Pro" -> res.ProFullBody [] r = "Con" -> res.ConFullBody [] OTHER -> res.VerdictFullBody

\* every session call returned its whole generation and Execute returned the result
FullySuccessful ==
    /\ ReturnedResult
    /\ \A r \in Roles : sess[r].ret = "ok" /\ sess[r].cut = "no"

\* C26: on a fully successful run each role's headline and full body in Result are its
\* parser's after Finalize: the whole output with an empty headline when the marker never
\* appeared, and otherwise the (trimmed) text following the marker, never the headline region
\* or the marker before it.
C26_ResultIsParserOutput ==
    FullySuccessful =>
        \A r \in Roles :
            /\ ResultOneLiner(result, r) = parser[r].oneLiner
            /\ ResultFullBody(result, r) = parser[r].fullBody
            /\ ResultFullBody(result, r) =
                  (IF Contains(Concat(gen[r]), MarkerOf(r))
                   THEN TrimSpace(AfterMarker(Concat(gen[r]), MarkerOf(r)))
                   ELSE Concat(gen[r]))

----------------------------------------------------------------------------
(* C27 *)

\* C27: when every session call eventually returns, Execute eventually returns; each Phase-1
\* task signals the wait group exactly once on every path, the early return on a client
\* construction failure included, so the join sees two completions, never more.
C27_ExecuteTerminates ==
    /\ (pc = "wait") ~> (pc = "returned")
    /\ [](pc # "init" =>
             /\ wg \in 0..2
             /\ wg = 2 - Len(doneOrder)
             /\ \A r \in Phase1Roles :
                   Cardinality({i \in 1..Len(doneOrder) : doneOrder[i] = r})
                       = (IF Terminated(r) THEN 1 ELSE 0))

\* Execute returned after a Phase-1 task left early on a client construction failure
C27_Witness ==
    /\ pc = "returned"
    /\ \E r \in Phase1Roles : sess[r].client = "fail"
    /\ wg = 0
    /\ Len(doneOrder) = 2

----------------------------------------------------------------------------
(* C28 *)

\* the role's callback has received its done event
DoneSignalled(r) == DoneEvents(r) > 0

\* the step delivers a Judge event or the phase-transition notification
JudgePhaseEvent == events'["Judge"] # events["Judge"] \/ judgeStarts' # judgeStarts

\* C28: in streaming mode a role's done event is the last event of that role, so its headline
\* event, if any, precedes it; every Judge event and the phase-transition notification are
\* delivered when each streaming Phase-1 role already has its done event; the Phase-1 roles'
\* events are not ordered with respect to each other.
C28_EventOrdering ==
    /\ [](\A r \in Roles : \A i \in 1..Len(events[r]) : events[r][i].done => i = Len(events[r]))
    /\ [][JudgePhaseEvent => \A r \in Phase1Roles : Streaming(r) => DoneSignalled(r)]_vars

\* both Phase-1 roles streamed a headline, Con's done event came before Pro's, and the Judge's
\* headline and done events followed
C28_Witness ==
    /\ \A r \in Roles : Streaming(r) /\ HeadlineEvents(r) = 1 /\ DoneSignalled(r)
    /\ doneOrder = <<"Con", "Pro">>
    /\ judgeStarts = 1
    /\ pc = "returned"

----------------------------------------------------------------------------
(* C29 *)

\* the role's session call was made as a plain Chat call: no chunk was handed to a callback
NonStreamingRun(r) == tpc[r] # "streaming" /\ delivered[r] = 0

\* C29: whatever callbacks are nil, a callback that is nil is never invoked: a role whose
\* callback is nil gets no event and its session call is the non-streaming one, and with a nil
\* onJudgeStart no phase-transition notification is made.
C29_NoNilCallbackInvoked ==
    /\ \A r \in Roles : ~onRole[r] => events[r] = <<>> /\ NonStreamingRun(r)
    /\ ~onJudgeStart => judgeStarts = 0

\* SetStream(nil, nil, nil) without a phase-transition callback: the run went through both
\* phases and returned its result
C29_Witness ==
    /\ stream /\ (\A r \in Roles : ~onRole[r]) /\ ~onJudgeStart
    /\ ReturnedResult
    /\ \A r \in Roles : sess[r].ret = "ok" /\ NonStreamingRun(r)

----------------------------------------------------------------------------
(* C30 *)

RECURSIVE FeedAll(_, _)
\* the parser after the chunks were fed one by one
FeedAll(p, chunks) ==
    IF chunks = <<>> THEN p ELSE FeedAll(FeedState(p, Head(chunks)), Tail(chunks))

\* the chunks the role's session handed to its callback
SessionChunks(r) == SubSeq(gen[r], 1, delivered[r])

\* the headline and full body Execute records for a role, from what the role's own session
\* produced
SessionText(r) ==
    IF Streaming(r)
    THEN LET f == Finalize(FeedAll(NewStreamParser(MarkerOf(r)), SessionChunks(r)))
         IN  [oneLiner |-> f.oneLiner,
              fullBody |-> IF f.fullBody = <<>> THEN f.buffer ELSE f.fullBody]
    ELSE IF sess[r].ret = "ok"
         THEN LET f == Finalize(FeedState(NewStreamParser(MarkerOf(r)), Concat(gen[r])))
              IN  [oneLiner |-> f.oneLiner, fullBody |-> f.fullBody]
         ELSE [oneLiner |-> <<>>, fullBody |-> <<>>]

\* the error a role's own client construction and session call leave
SessionErr(r) ==
    IF sess[r].client = "fail" THEN Errorf(CreateName(r), "config")
    ELSE IF r \in Phase1Roles THEN Phase1Err(r, Streaming(r), sess[r].ret)
    ELSE JudgeErr(Streaming(r), sess[r].ret)

\* the error Execute returns, from the three roles' errors in the order Execute checks them
OutcomeErr ==
    IF SessionErr("Pro") # NoErr THEN SessionErr("Pro")
    ELSE IF SessionErr("Con") # NoErr THEN SessionErr("Con")
    ELSE SessionErr("Judge")

\* C30: the outcome of Execute, the returned error or else the six text fields of Result, is
\* determined by what the Pro, Con and Judge sessions produced, whatever the order in which
\* the steps of the Pro and Con tasks were taken.
C30_OutcomeIndependentOfInterleaving ==
    ret.returned =>
        /\ ret.err = OutcomeErr
        /\ ret.hasResult <=> OutcomeErr = NoErr
        /\ ret.hasResult =>
              \A r \in Roles :
                  /\ ResultOneLiner(result, r) = SessionText(r).oneLiner
                  /\ ResultFullBody(result, r) = SessionText(r).fullBody

\* Execute returned a result with every headline and body filled in, after the Con task had
\* finished before the Pro task
C30_Witness ==
    /\ ReturnedResult
    /\ doneOrder = <<"Con", "Pro">>
    /\ \A r \in Roles : ResultOneLiner(result, r) # <<>> /\ ResultFullBody(result, r) # <<>>

----------------------------------------------------------------------------
(* C31 *)

\* the headline and full body the streaming branch records for the role's whole output
StreamingModeText(r) ==
    LET res == RecordStreaming(EmptyResult, r, FeedAll(NewStreamParser(MarkerOf(r)), gen[r]))
    IN  [oneLiner |-> ResultOneLiner(res, r), fullBody |-> ResultFullBody(res, r)]

\* the headline and full body the non-streaming branch records for the role's whole output
FullModeText(r) ==
    LET res == RecordFull(EmptyResult, r, NewStreamParser(MarkerOf(r)), Concat(gen[r]))
    IN  [oneLiner |-> ResultOneLiner(res, r), fullBody |-> ResultFullBody(res, r)]

\* C31: on a run without a session error each role's headline and full body in Result are
\* those the streaming branch and the non-streaming branch alike give for the role's output
\* text, whether the marker is absent, followed by text or followed by nothing.
C31_ModeEquivalence ==
    FullySuccessful =>
        \A r \in Roles :
            /\ ResultOneLiner(result, r) = StreamingModeText(r).oneLiner
            /\ ResultOneLiner(result, r) = FullModeText(r).oneLiner
            /\ ResultFullBody(result, r) = StreamingModeText(r).fullBody
            /\ ResultFullBody(result, r) = FullModeText(r).fullBody

----------------------------------------------------------------------------
(* C32 *)

\* runStreaming has returned
RunnerReturned == cli.phase = "returned"

\* both Phase-1 roles' done events have reached the runner's callbacks
BothDone == DoneSignalled("Pro") /\ DoneSignalled("Con")

\* the Judge spinner is started at most once, exactly when both done events have arrived, by
\* the callback of the done event that arrived second
StartedBySecondDone ==
    /\ Len(cli.starts) <= 1
    /\ cli.phase # "idle" => (cli.starts # <<>> <=> BothDone)
    /\ cli.starts # <<>> => Len(doneOrder) = 2 /\ cli.starts[1] = doneOrder[2]

\* once the callbacks are installed, every read and write of a status flag is made with mu held
FlagsUnderMutex == \A a \in cli.access : a.shared => a.held

\* the spinner was started by Con's done event after Pro's, or the other way round
StartedByEither == cli.starts = <<"Con">> \/ cli.starts = <<"Pro">>

\* C32: in the CLI streaming runner, under every interleaving of the Pro and Con callbacks,
\* the Judge spinner is started exactly once per run, by the second of the two done events
\* and never before both roles are done, and the status flags are read and written only with
\* the runner's mutex held.
C32_SpinnerStartedOnce ==
    /\ StartedBySecondDone
    /\ FlagsUnderMutex
    /\ RunnerReturned => Len(cli.starts) = 1

----------------------------------------------------------------------------
(* C33 *)

\* a spinner goroutine is running
SpinnerRunning == cli.spinning > 0

\* the Judge callback was called, so the spinner was stopped on its first call
JudgeCallbackFired == events["Judge"] # <<>>

\* C33: in the CLI streaming runner the Judge spinner goroutine, once started, has been
\* stopped when runStreaming returns, whatever Execute returned, runs without any Judge
\* callback included.
C33_SpinnerStoppedAtReturn == (RunnerReturned /\ cli.starts # <<>>) => ~SpinnerRunning

----------------------------------------------------------------------------
(* C34 *)

\* the role's option names a recognised provider
Recognised(r) == conf.opts[r].Provider \in {"deepseek", "gemini", "dashscope"}

\* the options have been applied to the config, and not been changed since
OptionsApplied == conf.applied > 0 /\ ~(conf.selected /\ conf.applied = 1)

\* the same options were applied twice in a row
AppliedTwice == conf.applied = 2 /\ ~conf.selected

\* C34: ApplyToConfig leaves every role's Temperature and MaxTokens as they were; a model
\* given for a role becomes the role's model; a recognised provider given without a model
\* becomes the role's provider with that provider's default model; an unrecognised provider
\* leaves the role's provider as it was; and a second application of the same options leaves
\* the config as the first made it.
C34_ApplyToConfigFrame ==
    OptionsApplied =>
        /\ \A r \in Roles :
              /\ conf.cfg[r].Temperature = conf.before[r].Temperature
              /\ conf.cfg[r].MaxTokens = conf.before[r].MaxTokens
              /\ conf.opts[r].Model # "" => conf.cfg[r].Model = conf.opts[r].Model
              /\ (Recognised(r) /\ conf.opts[r].Model = "") =>
                    /\ conf.cfg[r].Provider = conf.opts[r].Provider
                    /\ conf.cfg[r].Model = GetDefaultModel(conf.opts[r].Provider)
              /\ ~Recognised(r) => conf.cfg[r].Provider = conf.before[r].Provider
              /\ (~Recognised(r) /\ conf.opts[r].Model = "") => conf.cfg[r] = conf.before[r]
        /\ AppliedTwice => conf.cfg = conf.first

\* the same options applied twice: a recognised provider alone for Pro, a model alone for Con,
\* an unrecognised provider with a model for the Judge
C34_Witness ==
    /\ AppliedTwice
    /\ conf.opts["Pro"] = [Provider |-> "dashscope", Model |-> ""]
    /\ conf.opts["Con"] = [Provider |-> "", Model |-> "my-model"]
    /\ conf.opts["Judge"] = [Provider |-> "openai", Model |-> "my-model"]
    /\ conf.cfg["Pro"].Provider = "dashscope" /\ conf.cfg["Pro"].Temperature = "0.8"
    /\ conf.cfg["Con"].Provider = "deepseek" /\ conf.cfg["Con"].Model = "my-model"
    /\ conf.cfg["Judge"].Provider = "gemini" /\ conf.cfg["Judge"].Model = "my-model"

----------------------------------------------------------------------------
(* C35 *)

\* the positions at which an empty line is followed by another empty line
EmptyPairs(ls) == {i \in 1..Len(ls) - 1 : ls[i] = <<>> /\ ls[i + 1] = <<>>}

\* the position of the first empty line of the first such pair
FirstPair(ls) == CHOOSE i \in EmptyPairs(ls) : \A k \in EmptyPairs(ls) : i <= k

\* the lines typed before the input ended
TypedLines(ls) == IF EmptyPairs(ls) = {} THEN ls ELSE SubSeq(ls, 1, FirstPair(ls) - 1)

\* the text read has been returned without an error
InputRead == inp.returned /\ inp.err = "nil"

\* an empty line stands between two lines of text, before the input ended
SingleEmptyBetween(ls) ==
    \E i \in 2..Len(TypedLines(ls)) - 1 :
        ls[i] = <<>> /\ ls[i - 1] # <<>> /\ ls[i + 1] # <<>>

\* C35: interactive multi-line input is read up to the first two consecutive empty lines, or
\* to the end of input; the text is the lines before that point joined by newlines, a single
\* empty line between non-empty lines included; the text never ends with an empty line.
C35_MultiLineInput ==
    InputRead =>
        /\ inp.pos = (IF EmptyPairs(inp.stdin) = {} THEN Len(inp.stdin)
                      ELSE FirstPair(inp.stdin) + 1)
        /\ inp.text = JoinLines(TrimTrailingEmpty(TypedLines(inp.stdin)))
        /\ \A i \in 2..Len(inp.lines) - 1 :
              (inp.stdin[i] = <<>> /\ inp.stdin[i - 1] # <<>> /\ inp.stdin[i + 1] # <<>>)
                  => inp.lines[i] = <<>>
        /\ Len(inp.lines) <= Len(TypedLines(inp.stdin))
        /\ SingleEmptyBetween(inp.stdin) => Contains(inp.text, <<NL, NL>>)
        /\ inp.lines = <<>> \/ inp.lines[Len(inp.lines)] # <<>>
        /\ inp.text = <<>> \/ inp.text[Len(inp.text)] # NL

\* text, an empty line, text, then two empty lines: the empty line in between is in the text
\* and the two at the end are not
C35_Witness ==
    /\ InputRead
    /\ inp.stdin = <<<<"a">>, <<>>, <<"a">>, <<>>, <<>>>>
    /\ inp.text = <<"a", NL, NL, "a">>
    /\ inp.pos = 5

====
